---- MODULE Spec2Model ----
(***************************************************************************)
(* Tax computation pipeline and optimization orchestrator of               *)
(* tax-logic-core.                                                         *)
(*                                                                         *)
(* Money: incomes and thresholds are whole dollars, rates are whole        *)
(* percents, so a tax computed as amount * rate is in cents (1/100         *)
(* dollar).  4561.50 dollars is 456150.  Arithmetic is exact; the          *)
(* rounding of IEEE doubles is not modelled.                               *)
(***************************************************************************)
EXTENDS Integers, Sequences, FiniteSets, TLC

VARIABLES
    cOp,        \* calculator harness: which calculator has been applied
    cBrackets,  \* calculator harness: the bracket table argument
    cStatus,    \* calculator harness: the filingStatus argument
    cX,         \* calculator harness: first amount (income / ordinary taxable income)
    cY,         \* calculator harness: second amount (other income / capital gains)
    cRes,       \* calculator harness: result for cX (or for the pair)
    cRes2,      \* calculator harness: result for cY
    profile,    \* the profile passed by the caller
    clock,      \* the current date <<year, month, day>> (read by calculateAge)
    caller,     \* the entry point running: "none", "analyze" or "whatIf"
    pc,         \* position: "idle", "try" (inside analyzeTaxOptimizations),
                \* "whatIf" (runWhatIfScenario after the analysis), "done"
    block,      \* analyzeTaxOptimizations: the try block about to run (1..10),
                \* 11 once all have run
    currentTax,        \* analyzeTaxOptimizations: const currentTax
    allOptimizations,  \* analyzeTaxOptimizations: const allOptimizations
    warnings,          \* number of console.warn diagnostics written
    invoked,           \* history: the analyzers called so far, in call order
    chunks,            \* history: the non-empty lists analyzers returned, in call order
    result,            \* the value analyzeTaxOptimizations returned
    selectedIds,       \* runWhatIfScenario: the selectedOptimizationIds argument
    modifiedForm,      \* runWhatIfScenario: let modifiedForm
    whatIf             \* the value runWhatIfScenario returned

calcVars == <<cOp, cBrackets, cStatus, cX, cY, cRes, cRes2>>

orchVars == <<profile, clock, caller, pc, block, currentTax, allOptimizations, warnings,
              invoked, chunks, result, selectedIds, modifiedForm, whatIf>>

vars == <<cOp, cBrackets, cStatus, cX, cY, cRes, cRes2,
          profile, clock, caller, pc, block, currentTax, allOptimizations, warnings,
          invoked, chunks, result, selectedIds, modifiedForm, whatIf>>

---------------------------------------------------------------------------
(* Bounds of the model *)

\* incomes are drawn within this distance of every bracket threshold
Delta == 1
\* synthetic bracket tables have at most this many brackets
MaxBrackets == 3
\* floors of synthetic bracket tables are at most this
MaxFloor == 3
\* the analyzers of one run return at most this many recommendations in all
MaxRecs == 2
\* at most this many analyzers throw in one run
MaxFailures == 1

---------------------------------------------------------------------------
(* JavaScript helpers *)

Max(a, b) == IF a >= b THEN a ELSE b

Min(a, b) == IF a <= b THEN a ELSE b

---------------------------------------------------------------------------
(* Constant tables of calculateTax.js; rates in percent *)

FilingStatuses == {"single", "married", "marriedSeparate", "head", "widow"}

TAX_BRACKETS_2025 ==
    [s \in FilingStatuses |->
        CASE s = "single" ->
               << <<0, 10>>, <<11925, 12>>, <<48475, 22>>, <<103350, 24>>,
                  <<197300, 32>>, <<250525, 35>>, <<626350, 37>> >>
          [] s = "married" ->
               << <<0, 10>>, <<23850, 12>>, <<96950, 22>>, <<206700, 24>>,
                  <<394600, 32>>, <<501050, 35>>, <<751600, 37>> >>
          [] s = "marriedSeparate" ->
               << <<0, 10>>, <<11925, 12>>, <<48475, 22>>, <<103350, 24>>,
                  <<197300, 32>>, <<250525, 35>>, <<375800, 37>> >>
          [] s = "head" ->
               << <<0, 10>>, <<17000, 12>>, <<64850, 22>>, <<103350, 24>>,
                  <<197300, 32>>, <<250500, 35>>, <<626350, 37>> >>
          [] s = "widow" ->
               << <<0, 10>>, <<23850, 12>>, <<96950, 22>>, <<206700, 24>>,
                  <<394600, 32>>, <<501050, 35>>, <<751600, 37>> >>]

CAPITAL_GAINS_BRACKETS_2025 ==
    [s \in FilingStatuses |->
        CASE s = "single"          -> << <<0, 0>>, <<48350, 15>>, <<533400, 20>> >>
          [] s = "married"         -> << <<0, 0>>, <<96700, 15>>, <<600050, 20>> >>
          [] s = "marriedSeparate" -> << <<0, 0>>, <<48350, 15>>, <<300025, 20>> >>
          [] s = "head"            -> << <<0, 0>>, <<64750, 15>>, <<566700, 20>> >>
          [] s = "widow"           -> << <<0, 0>>, <<96700, 15>>, <<600050, 20>> >>]

---------------------------------------------------------------------------
(* calculateBracketTax(income, brackets) *)

\* the for loop from index i on, with the tax accumulated so far
RECURSIVE BracketLoop(_, _, _, _)
BracketLoop(income, brackets, i, tax) ==
    IF i > Len(brackets) THEN tax
    ELSE LET limit == brackets[i][1]
             rate  == brackets[i][2]
         IN  \* nextLimit is Infinity for the last bracket: income > Infinity is false
             IF i + 1 <= Len(brackets) /\ income > brackets[i + 1][1]
             THEN BracketLoop(income, brackets, i + 1,
                              tax + (brackets[i + 1][1] - limit) * rate)
             ELSE tax + (income - limit) * rate    \* break

\* mutant: the whole income taxed at the rate of the bracket it reaches
RECURSIVE FlatLoop(_, _, _)
FlatLoop(income, brackets, i) ==
    IF i + 1 <= Len(brackets) /\ income > brackets[i + 1][1]
    THEN FlatLoop(income, brackets, i + 1)
    ELSE income * brackets[i][2]

\* mutant: a full band is charged from 0 instead of from its floor
RECURSIVE CliffLoop(_, _, _, _)
CliffLoop(income, brackets, i, tax) ==
    IF i + 1 <= Len(brackets) /\ income > brackets[i + 1][1]
    THEN CliffLoop(income, brackets, i + 1, tax + brackets[i + 1][1] * brackets[i][2])
    ELSE tax + (income - brackets[i][1]) * brackets[i][2]

calculateBracketTax_cliff(income, brackets) ==
    IF income <= 0 THEN 0
    ELSE Max(0, CliffLoop(income, brackets, 1, 0))

calculateBracketTax_flat(income, brackets) ==
    IF income <= 0 THEN 0
    ELSE Max(0, FlatLoop(income, brackets, 1))

calculateBracketTax(income, brackets) ==
    IF income <= 0 THEN 0
    ELSE Max(0, BracketLoop(income, brackets, 1, 0))

---------------------------------------------------------------------------
(* calculateCapitalGainsTax(taxableIncome, capitalGains, filingStatus) *)

\* CAPITAL_GAINS_BRACKETS_2025[filingStatus] || CAPITAL_GAINS_BRACKETS_2025.single
CapitalGainsBracketsFor(filingStatus) ==
    IF filingStatus \in FilingStatuses
    THEN CAPITAL_GAINS_BRACKETS_2025[filingStatus]
    ELSE CAPITAL_GAINS_BRACKETS_2025["single"]

\* the for loop from index i down, with the tax and the remaining gains so far
RECURSIVE CapitalGainsLoop(_, _, _, _, _, _)
CapitalGainsLoop(taxableIncome, totalIncome, brackets, i, tax, remainingGains) ==
    IF ~(i >= 1 /\ remainingGains > 0) THEN tax
    ELSE LET threshold == brackets[i][1]
             rate      == brackets[i][2]
         IN  IF totalIncome > threshold
             THEN LET gainsTaxedAtThisRate ==
                          Min(remainingGains,
                              totalIncome - Max(taxableIncome, threshold))
                  IN  CapitalGainsLoop(taxableIncome, totalIncome, brackets, i - 1,
                                       tax + gainsTaxedAtThisRate * rate,
                                       remainingGains - gainsTaxedAtThisRate)
             ELSE CapitalGainsLoop(taxableIncome, totalIncome, brackets, i - 1,
                                   tax, remainingGains)

calculateCapitalGainsTax(taxableIncome, capitalGains, filingStatus) ==
    IF capitalGains <= 0 THEN 0
    ELSE LET brackets    == CapitalGainsBracketsFor(filingStatus)
             totalIncome == taxableIncome + capitalGains
         IN  Max(0, CapitalGainsLoop(taxableIncome, totalIncome, brackets,
                                     Len(brackets), 0, capitalGains))

---------------------------------------------------------------------------
(* JavaScript values.  A form (profile) is a function from field names to  *)
(* tagged values; an absent field reads as undefined.                      *)

Num(n)  == [k |-> "number", v |-> n]
Str(x)  == [k |-> "string", v |-> x]
Bool(b) == [k |-> "boolean", v |-> b]
Obj(o)  == [k |-> "object", v |-> o]
Arr(a)  == [k |-> "array", v |-> a]
Date(y, m, d) == [k |-> "date", v |-> <<y, m, d>>]
NaN     == [k |-> "NaN", v |-> 0]

Has(form, f) == f \in DOMAIN form

\* parseFloat(form.f) || 0
Amt(form, f) ==
    IF Has(form, f) /\ form[f].k = "number" THEN form[f].v ELSE 0

\* truthiness of form.f
Truthy(form, f) ==
    /\ Has(form, f)
    /\ CASE form[f].k = "number"  -> form[f].v # 0
         [] form[f].k = "string"  -> form[f].v # ""
         [] form[f].k = "boolean" -> form[f].v
         [] form[f].k = "NaN"     -> FALSE
         [] OTHER                 -> TRUE

\* form.f || dflt, for a string-valued field
StrOr(form, f, dflt) ==
    IF Has(form, f) /\ form[f].k = "string" /\ form[f].v # "" THEN form[f].v ELSE dflt

\* { ...a, ...b }
Spread(a, b) ==
    [f \in DOMAIN a \cup DOMAIN b |-> IF f \in DOMAIN b THEN b[f] ELSE a[f]]

EmptyObject == [f \in {} |-> Num(0)]

---------------------------------------------------------------------------
(* calculateSelfEmploymentTax(netSelfEmploymentIncome): tax and deduction  *)
(* in mills (1/1000 dollar).  0.9235 = 1847/2000; the results are exact    *)
(* when the profit is a multiple of 2000 dollars.                          *)

ssWageBase == 176100

additionalMedicareThreshold == 200000

\* variant: the social security part without the wage base cap
calculateSelfEmploymentTax_nocap(netSelfEmploymentIncome) ==
    IF netSelfEmploymentIncome <= 0 THEN [tax |-> 0, deduction |-> 0]
    ELSE LET taxableBase        == (netSelfEmploymentIncome * 1847) \div 2000
             ssTax              == taxableBase * 124
             medicareTax        == taxableBase * 29
             additionalMedicare == Max(0, taxableBase - additionalMedicareThreshold) * 9
             totalTax           == ssTax + medicareTax + additionalMedicare
         IN  [tax |-> totalTax, deduction |-> totalTax \div 2]

calculateSelfEmploymentTax(netSelfEmploymentIncome) ==
    IF netSelfEmploymentIncome <= 0 THEN [tax |-> 0, deduction |-> 0]
    ELSE LET taxableBase        == (netSelfEmploymentIncome * 1847) \div 2000
             ssTax              == Min(taxableBase, ssWageBase) * 124
             medicareTax        == taxableBase * 29
             additionalMedicare == Max(0, taxableBase - additionalMedicareThreshold) * 9
             totalTax           == ssTax + medicareTax + additionalMedicare
         IN  [tax |-> totalTax, deduction |-> totalTax \div 2]

---------------------------------------------------------------------------
(* calculateNIIT(agi, netInvestmentIncome, filingStatus), in mills *)

NIITThreshold(filingStatus) ==
    CASE filingStatus = "single"          -> 200000
      [] filingStatus = "married"         -> 250000
      [] filingStatus = "marriedSeparate" -> 125000
      [] filingStatus = "head"            -> 200000
      [] filingStatus = "widow"           -> 250000
      [] OTHER                            -> 200000

calculateNIIT(agi, netInvestmentIncome, filingStatus) ==
    LET threshold  == NIITThreshold(filingStatus)
        excessAGI  == Max(0, agi - threshold)
        taxableNII == Min(excessAGI, netInvestmentIncome)
    IN  taxableNII * 38

---------------------------------------------------------------------------
(* calculateTotalTax(form).  Income, adjustment and deduction amounts are  *)
(* whole dollars; tax, credit and payment amounts of the result are cents. *)
(* The current date is an input of calculateAge.                           *)

\* variant: the table left at the amounts of the year before
STANDARD_DEDUCTIONS_2025_stale ==
    [s \in FilingStatuses |->
        CASE s = "single"          -> 14600
          [] s = "married"         -> 29200
          [] s = "marriedSeparate" -> 14600
          [] s = "head"            -> 21900
          [] s = "widow"           -> 29200]

STANDARD_DEDUCTIONS_2025 ==
    [s \in FilingStatuses |->
        CASE s = "single"          -> 15700
          [] s = "married"         -> 31400
          [] s = "marriedSeparate" -> 15700
          [] s = "head"            -> 23500
          [] s = "widow"           -> 31400]

\* scheduleC / scheduleE: netField when defined, else grossField - costField
ScheduleNet(form, flag, sched, netField, grossField, costField) ==
    IF Truthy(form, flag) /\ Has(form, sched) /\ form[sched].k = "object"
    THEN LET o == form[sched].v
         IN  IF Has(o, netField) THEN Amt(o, netField)
             ELSE Amt(o, grossField) - Amt(o, costField)
    ELSE 0

\* whether form.hasScheduleD && form.scheduleD holds
HasScheduleD(form) ==
    Truthy(form, "hasScheduleD") /\ Has(form, "scheduleD") /\ form["scheduleD"].k = "object"

\* form.hasScheduleD ? (parseFloat(form.scheduleD?.longTermGain) || 0) : 0
LongTermGain(form) ==
    IF Truthy(form, "hasScheduleD") /\ Has(form, "scheduleD") /\ form["scheduleD"].k = "object"
    THEN Amt(form["scheduleD"].v, "longTermGain")
    ELSE 0

\* the years completed between the birth date and today; 40 without a birth date
calculateAge(form, today) ==
    IF ~(Has(form, "birthDate") /\ form["birthDate"].k = "date") THEN 40
    ELSE LET birth     == form["birthDate"].v
             age       == today[1] - birth[1]
             monthDiff == today[2] - birth[2]
         IN  IF monthDiff < 0 \/ (monthDiff = 0 /\ today[3] < birth[3])
             THEN age - 1 ELSE age

\* variant: the comparison with the end threshold left out
getPhaseOutPct_noend(filingStatus, income) ==
    LET start == IF filingStatus = "married" THEN 300000 ELSE 150000
        end   == IF filingStatus = "married" THEN 550000 ELSE 400000
    IN  IF income <= start THEN <<1, 1>>
        ELSE <<(end - start) - (income - start), end - start>>

\* the phase-out fraction as the pair <<numerator, denominator>>
getPhaseOutPct(filingStatus, income) ==
    LET start == IF filingStatus = "married" THEN 300000 ELSE 150000
        end   == IF filingStatus = "married" THEN 550000 ELSE 400000
    IN  IF income <= start THEN <<1, 1>>
        ELSE IF income >= end THEN <<0, 1>>
        ELSE <<(end - start) - (income - start), end - start>>

RECURSIVE GCD(_, _)
GCD(a, b) == IF b = 0 THEN a ELSE GCD(b, a % b)

\* amount * pct for a fraction pct = <<numerator, denominator>>
TimesPct(amount, pct) ==
    LET g == GCD(pct[2], pct[1])
    IN  (amount * (pct[1] \div g)) \div (pct[2] \div g)

\* the sum of the above-the-line adjustment fields of the form
FormAdjustments(form) ==
    Amt(form, "educatorExpenses") + Amt(form, "hsaDeduction")
      + Amt(form, "selfEmploymentTaxDeduction") + Amt(form, "selfEmployedSEPSimple")
      + Amt(form, "selfEmployedHealthInsurance") + Amt(form, "penaltyEarlyWithdrawal")
      + Amt(form, "alimonyPaid") + Amt(form, "iraDeduction")
      + Amt(form, "studentLoanInterest")

\* (form.dependents || []).filter(pred).length
RECURSIVE CountDeps(_, _)
CountDeps(deps, children) ==
    IF deps = << >> THEN 0
    ELSE (IF children
          THEN (IF Head(deps).qualifyingChild /\ Head(deps).childTaxCredit THEN 1 ELSE 0)
          ELSE (IF ~Head(deps).qualifyingChild THEN 1 ELSE 0))
         + CountDeps(Tail(deps), children)

Dependents(form) ==
    IF Has(form, "dependents") /\ form["dependents"].k = "array"
    THEN form["dependents"].v ELSE << >>

\* variant: form.f ?? estimate, which keeps a 0
AmtOr_nullish(form, f, estimate) ==
    IF Has(form, f) /\ form[f].k = "number" THEN form[f].v ELSE estimate

\* parseFloat(form.f) || estimate
AmtOr(form, f, estimate) ==
    IF Amt(form, f) # 0 THEN Amt(form, f) ELSE estimate

TaxAfterCredits_unfloored(totalTaxBeforeCredits, nonRefundableCredits, refundableCredits) ==
    totalTaxBeforeCredits - nonRefundableCredits - refundableCredits

\* finalTax: Math.max(0, totalTaxBeforeCredits - nonRefundableCredits)
\*             - refundableCredits
TaxAfterCredits(totalTaxBeforeCredits, nonRefundableCredits, refundableCredits) ==
    LET taxAfterNonRefundable == Max(0, totalTaxBeforeCredits - nonRefundableCredits)
    IN  taxAfterNonRefundable - refundableCredits

calculateTotalTaxAt(form, today) ==
    LET filingStatus == StrOr(form, "filingStatus", "single")
        totalWages            == Amt(form, "totalWages")
        taxableInterest       == Amt(form, "taxableInterest")
        ordinaryDividends     == Amt(form, "ordinaryDividends")
        qualifiedDividends    == Amt(form, "qualifiedDividends")
        taxableIra            == Amt(form, "taxableIra")
        taxablePensions       == Amt(form, "taxablePensions")
        taxableSocialSecurity == Amt(form, "taxableSocialSecurity")
        otherIncome           == Amt(form, "otherIncome")
        scheduleC == ScheduleNet(form, "hasScheduleC", "scheduleC",
                                 "netProfit", "grossReceipts", "expenses")
        scheduleE == ScheduleNet(form, "hasScheduleE", "scheduleE",
                                 "netIncome", "rentalIncome", "rentalExpenses")
        scheduleD == IF HasScheduleD(form)
                     THEN Amt(form["scheduleD"].v, "shortTermGain")
                            + Amt(form["scheduleD"].v, "longTermGain")
                     ELSE 0
        totalCapitalGains == IF HasScheduleD(form) THEN scheduleD
                             ELSE Amt(form, "capitalGainLoss")
        totalIncome == totalWages + taxableInterest + ordinaryDividends + taxableIra
                         + taxablePensions + taxableSocialSecurity + otherIncome
                         + scheduleC + scheduleE + totalCapitalGains
        magiForPhaseOut   == totalIncome - FormAdjustments(form)
        phaseOutPct       == getPhaseOutPct(filingStatus, magiForPhaseOut)
        tipsDeduction     == TimesPct(Min(Amt(form, "tipIncome"), 25000), phaseOutPct)
        overtimeDeduction == TimesPct(Min(Amt(form, "overtimeIncome"), 12500), phaseOutPct)
        autoLoanDeduction == Min(Amt(form, "autoLoanInterest"), 10000)
        seniorBonus       == IF calculateAge(form, today) >= 65 THEN 6000 ELSE 0
        totalAdjustments  == FormAdjustments(form) + tipsDeduction + overtimeDeduction
                               + autoLoanDeduction + seniorBonus
        agi == totalIncome - totalAdjustments
        standardDeduction == IF filingStatus \in FilingStatuses
                             THEN STANDARD_DEDUCTIONS_2025[filingStatus]
                             ELSE STANDARD_DEDUCTIONS_2025["single"]
        saltCap    == IF filingStatus = "marriedSeparate" THEN 20000 ELSE 40000
        actualSalt == Min(Amt(form, "stateLocalTaxes") + Amt(form, "realEstateTaxes"), saltCap)
        itemizedTotal == Amt(form, "medicalExpenses") + actualSalt
                           + Amt(form, "mortgageInterest") + Amt(form, "charityCash")
                           + Amt(form, "charityNonCash") + Amt(form, "casualtyLosses")
                           + Amt(form, "otherItemized")
        deduction == IF StrOr(form, "deductionType", "") = "itemized"
                     THEN itemizedTotal ELSE standardDeduction
        \* QBI: 20% = 1/5, exact when the amounts are multiples of 5 dollars
        qbiDeduction ==
            IF scheduleC > 0
            THEN LET tentativeQBI     == scheduleC \div 5
                     taxableBeforeQBI == Max(0, agi - deduction)
                     capGains         == LongTermGain(form)
                     limit            == (taxableBeforeQBI - capGains) \div 5
                 IN  Min(tentativeQBI, Max(0, limit))
            ELSE 0
        taxableIncome == Max(0, agi - deduction - qbiDeduction)
        longTermGains == LongTermGain(form)
        totalQualifiedIncome  == qualifiedDividends + Max(0, longTermGains)
        ordinaryTaxableIncome == Max(0, taxableIncome - totalQualifiedIncome)
        brackets == IF filingStatus \in FilingStatuses
                    THEN TAX_BRACKETS_2025[filingStatus]
                    ELSE TAX_BRACKETS_2025["single"]
        regularTax      == calculateBracketTax(ordinaryTaxableIncome, brackets)
        capitalGainsTax == calculateCapitalGainsTax(ordinaryTaxableIncome,
                                                    totalQualifiedIncome, filingStatus)
        \* mills to cents
        seTax == calculateSelfEmploymentTax(scheduleC).tax \div 10
        investmentIncome == taxableInterest + ordinaryDividends + totalCapitalGains + scheduleE
        niit == calculateNIIT(agi, investmentIncome, filingStatus) \div 10
        totalTaxBeforeCredits == regularTax + capitalGainsTax + seTax + niit
        qualifyingChildren == CountDeps(Dependents(form), TRUE)
        otherDependents    == CountDeps(Dependents(form), FALSE)
        estimatedChildCredit           == qualifyingChildren * 2000
        estimatedOtherDependentsCredit == otherDependents * 500
        nonRefundableCredits ==
            100 * (AmtOr(form, "childTaxCredit", estimatedChildCredit)
                     + AmtOr(form, "creditOtherDependents", estimatedOtherDependentsCredit)
                     + Amt(form, "educationCredits") + Amt(form, "retirementSaversCredit")
                     + Amt(form, "childCareCredit"))
        refundableCredits ==
            100 * (Amt(form, "earnedIncomeCredit") + Amt(form, "otherCredits"))
        totalCredits == nonRefundableCredits + refundableCredits
        finalTax == TaxAfterCredits(totalTaxBeforeCredits, nonRefundableCredits,
                                    refundableCredits)
        totalPayments == 100 * (Amt(form, "totalWithholding")
                                  + Amt(form, "estimatedTaxPayments")
                                  + Amt(form, "amountAppliedFromPriorYear"))
        refundOrOwed == totalPayments - finalTax
    IN  [totalIncome |-> totalIncome,
         totalAdjustments |-> totalAdjustments,
         agi |-> agi,
         deduction |-> deduction,
         taxableIncome |-> taxableIncome,
         regularTax |-> regularTax,
         capitalGainsTax |-> capitalGainsTax,
         seTax |-> seTax,
         totalTaxBeforeCredits |-> totalTaxBeforeCredits,
         totalCredits |-> totalCredits,
         finalTax |-> finalTax,
         totalPayments |-> totalPayments,
         refundOrOwed |-> refundOrOwed,
         isRefund |-> refundOrOwed >= 0]

\* { ...form, ...overrides } then calculateTotalTax
calculateTaxWithOverridesAt(form, overrides, today) ==
    calculateTotalTaxAt(Spread(form, overrides), today)

---------------------------------------------------------------------------
(* Recommendations.  An analyzer is modelled by its contract: called with  *)
(* the form, it throws or returns an array of recommendation objects.      *)
(* potentialSavings is always a Math.round(...) value: an integer or NaN.  *)

CATEGORY_DEDUCTIONS == "Deductions"

CATEGORY_CAPITAL_GAINS == "Capital Gains"

DIFFICULTY_EASY == "easy"

DIFFICULTY_MEDIUM == "medium"

\* the recommendation objects, less potentialSavings, by id; formOverrides is
\* absent (an empty DOMAIN) for a recommendation without a patch
RecTemplates ==
    << [id |-> "deduction-switch-to-standard", category |-> CATEGORY_DEDUCTIONS,
        difficulty |-> DIFFICULTY_EASY,
        formOverrides |-> [deductionType |-> Str("standard")]],
       [id |-> "deduction-switch-to-itemized", category |-> CATEGORY_DEDUCTIONS,
        difficulty |-> DIFFICULTY_EASY,
        formOverrides |-> [deductionType |-> Str("itemized")]],
       [id |-> "cg-tax-loss-harvesting", category |-> CATEGORY_CAPITAL_GAINS,
        difficulty |-> DIFFICULTY_MEDIUM,
        formOverrides |-> EmptyObject] >>

RecIds == {RecTemplates[i].id : i \in DOMAIN RecTemplates}

\* the values Math.round(...) yields for potentialSavings, in dollars
SavingsValues == {NaN} \cup {Num(n) : n \in (0 - 1)..2}

Recs ==
    {[id |-> RecTemplates[i].id, category |-> RecTemplates[i].category,
      difficulty |-> RecTemplates[i].difficulty,
      formOverrides |-> RecTemplates[i].formOverrides,
      potentialSavings |-> sv] : i \in DOMAIN RecTemplates, sv \in SavingsValues}

RECURSIVE IdsOf(_)
IdsOf(opts) == IF opts = << >> THEN {} ELSE {Head(opts).id} \cup IdsOf(Tail(opts))

\* the arrays an analyzer can return when `used` ids are taken and `room`
\* recommendations are left: ids are unique within a run
ReturnedLists(used, room) ==
    {l \in UNION {[1..n -> Recs] : n \in 0..Min(room, 2)} :
        /\ \A i \in DOMAIN l : l[i].id \notin used
        /\ \A i, j \in DOMAIN l : i # j => l[i].id # l[j].id}

---------------------------------------------------------------------------
(* analyzeTaxOptimizations(form) *)

\* the try blocks, in source order
Analyzers ==
    << "analyzeFilingStatusOptimizations", "analyzeDeductionOptimizations",
       "analyzeRetirementOptimizations", "analyzeCreditsOptimizations",
       "analyzeSelfEmploymentOptimizations", "analyzeCapitalGainsOptimizations",
       "analyzeStateOptimizations", "analyzeAugustaRuleOptimization",
       "analyzeK1Optimizations", "analyzeAMTOptimizations" >>

\* const state = form.state || form.stateOfResidence || ''
StateOf(f) == StrOr(f, "state", StrOr(f, "stateOfResidence", ""))

\* variant: the state block without its if (state) guard
Calls_always(i, f) == i \in DOMAIN Analyzers

\* whether try block i calls its analyzer: the state block only with a state
Calls(i, f) == Analyzers[i] = "analyzeStateOptimizations" => StateOf(f) # ""

\* variant: the filter written opt.potentialSavings >= 0
IsBeneficial_nonneg(opt) ==
    opt.potentialSavings.k = "number" /\ opt.potentialSavings.v >= 0

\* opt.potentialSavings > 0
IsBeneficial(opt) == opt.potentialSavings.k = "number" /\ opt.potentialSavings.v > 0

\* opt.potentialSavings || 0
SavingsOrZero(opt) ==
    IF opt.potentialSavings.k = "number" THEN opt.potentialSavings.v ELSE 0

\* the comparator (a, b) => b.potentialSavings - a.potentialSavings
CompareSavings(a, b) == SavingsOrZero(b) - SavingsOrZero(a)

\* variant: an unstable sort, x goes in front of the elements it ties with
RECURSIVE InsertStable_unstable(_, _)
InsertStable_unstable(sorted, x) ==
    IF sorted = << >> THEN <<x>>
    ELSE IF CompareSavings(Head(sorted), x) < 0
         THEN <<Head(sorted)>> \o InsertStable_unstable(Tail(sorted), x)
         ELSE <<x>> \o sorted

\* Array.prototype.sort is stable: x goes behind every element the comparator
\* does not put after it
RECURSIVE InsertStable(_, _)
InsertStable(sorted, x) ==
    IF sorted = << >> THEN <<x>>
    ELSE IF CompareSavings(Head(sorted), x) <= 0
         THEN <<Head(sorted)>> \o InsertStable(Tail(sorted), x)
         ELSE <<x>> \o sorted

RECURSIVE SortFrom(_, _)
SortFrom(sorted, rest) ==
    IF rest = << >> THEN sorted
    ELSE SortFrom(InsertStable(sorted, Head(rest)), Tail(rest))

SortBySavings(seq) == SortFrom(<< >>, seq)

\* variant: the filter without the sort
BeneficialOptimizations_unsorted(all) == SelectSeq(all, IsBeneficial)

\* .filter(opt => opt.potentialSavings > 0).sort(...)
BeneficialOptimizations(all) == SortBySavings(SelectSeq(all, IsBeneficial))

\* .reduce((sum, opt) => sum + (opt.potentialSavings || 0), 0)
RECURSIVE SumSavings(_)
SumSavings(opts) ==
    IF opts = << >> THEN 0 ELSE SavingsOrZero(Head(opts)) + SumSavings(Tail(opts))

Null == [k |-> "null"]

\* variant: a category's entry is created by its first recommendation with
\* count 1 and totalSavings 0, and only later ones add their savings
generateSummary_firstSkipped(optimizations) ==
    LET cats == {optimizations[i].category : i \in DOMAIN optimizations}
        InCat(c) == LET Is(o) == o.category = c IN SelectSeq(optimizations, Is)
        IsEasy(o) == o.difficulty = DIFFICULTY_EASY
    IN  [totalCount |-> Len(optimizations),
         byCategory |-> [c \in cats |-> [count |-> Len(InCat(c)),
                                         totalSavings |-> SumSavings(Tail(InCat(c)))]],
         topRecommendation |-> IF optimizations = << >> THEN Null ELSE optimizations[1],
         easyWins |-> Len(SelectSeq(optimizations, IsEasy))]

\* generateSummary(optimizations)
generateSummary(optimizations) ==
    LET cats == {optimizations[i].category : i \in DOMAIN optimizations}
        InCat(c) == LET Is(o) == o.category = c IN SelectSeq(optimizations, Is)
        IsEasy(o) == o.difficulty = DIFFICULTY_EASY
    IN  [totalCount |-> Len(optimizations),
         byCategory |-> [c \in cats |-> [count |-> Len(InCat(c)),
                                         totalSavings |-> SumSavings(InCat(c))]],
         topRecommendation |-> IF optimizations = << >> THEN Null ELSE optimizations[1],
         easyWins |-> Len(SelectSeq(optimizations, IsEasy))]

\* variant: optimizedTax without Math.max(0, ...)
AnalysisResult_nofloor(tax, all) ==
    LET beneficialOptimizations == BeneficialOptimizations(all)
        totalPotentialSavings   == SumSavings(beneficialOptimizations)
    IN  [currentTax |-> tax,
         optimizations |-> beneficialOptimizations,
         totalPotentialSavings |-> totalPotentialSavings,
         optimizedTax |-> tax.finalTax - 100 * totalPotentialSavings,
         summary |-> generateSummary(beneficialOptimizations)]

\* the object analyzeTaxOptimizations returns; optimizedTax is in cents
AnalysisResult(tax, all) ==
    LET beneficialOptimizations == BeneficialOptimizations(all)
        totalPotentialSavings   == SumSavings(beneficialOptimizations)
    IN  [currentTax |-> tax,
         optimizations |-> beneficialOptimizations,
         totalPotentialSavings |-> totalPotentialSavings,
         optimizedTax |-> Max(0, tax.finalTax - 100 * totalPotentialSavings),
         summary |-> generateSummary(beneficialOptimizations)]

NoResult == [k |-> "none"]

\* entry into analyzeTaxOptimizations: state, currentTax, allOptimizations = []
EnterAnalysis ==
    /\ currentTax' = calculateTotalTaxAt(profile, clock)
    /\ allOptimizations' = << >>
    /\ pc' = "try"
    /\ block' = 1
    /\ UNCHANGED <<profile, clock, warnings, invoked, chunks, result,
                   selectedIds, modifiedForm, whatIf>>

\* a caller calls analyzeTaxOptimizations(profile)
AnalyzeBegin ==
    /\ pc = "idle"
    /\ caller' = "analyze"
    /\ EnterAnalysis
    /\ UNCHANGED calcVars

\* try block `block`: the analyzer returns an array, which is pushed
AnalyzerReturns ==
    /\ pc = "try"
    /\ block \in DOMAIN Analyzers
    /\ Calls(block, profile)
    /\ \E opts \in ReturnedLists(IdsOf(allOptimizations), MaxRecs - Len(allOptimizations)) :
          /\ allOptimizations' = allOptimizations \o opts
          /\ chunks' = IF opts = << >> THEN chunks ELSE Append(chunks, opts)
    /\ invoked' = Append(invoked, Analyzers[block])
    /\ block' = block + 1
    /\ UNCHANGED <<profile, clock, caller, pc, currentTax, warnings, result,
                   selectedIds, modifiedForm, whatIf>>
    /\ UNCHANGED calcVars

\* variant: one try statement around all the analyzers, so that a throw skips
\* the analyzers after it
AnalyzerThrows_abort ==
    /\ pc = "try"
    /\ block \in DOMAIN Analyzers
    /\ Calls(block, profile)
    /\ warnings < MaxFailures
    /\ warnings' = warnings + 1
    /\ invoked' = Append(invoked, Analyzers[block])
    /\ block' = Len(Analyzers) + 1
    /\ UNCHANGED <<profile, clock, caller, pc, currentTax, allOptimizations, chunks, result,
                   selectedIds, modifiedForm, whatIf>>
    /\ UNCHANGED calcVars

\* try block `block`: the analyzer throws; the catch clause warns and goes on
AnalyzerThrows ==
    /\ pc = "try"
    /\ block \in DOMAIN Analyzers
    /\ Calls(block, profile)
    /\ warnings < MaxFailures
    /\ warnings' = warnings + 1
    /\ invoked' = Append(invoked, Analyzers[block])
    /\ block' = block + 1
    /\ UNCHANGED <<profile, clock, caller, pc, currentTax, allOptimizations, chunks, result,
                   selectedIds, modifiedForm, whatIf>>
    /\ UNCHANGED calcVars

\* the state try block without a state: if (state) is false, nothing is called
StateBlockSkipped ==
    /\ pc = "try"
    /\ block \in DOMAIN Analyzers
    /\ ~Calls(block, profile)
    /\ block' = block + 1
    /\ UNCHANGED <<profile, clock, caller, pc, currentTax, allOptimizations, warnings,
                   invoked, chunks, result, selectedIds, modifiedForm, whatIf>>
    /\ UNCHANGED calcVars

\* filter, sort, totals, summary; return
AnalyzeReturn ==
    /\ pc = "try"
    /\ block = Len(Analyzers) + 1
    /\ result' = AnalysisResult(currentTax, allOptimizations)
    /\ pc' = IF caller = "whatIf" THEN "whatIf" ELSE "done"
    /\ UNCHANGED <<profile, clock, caller, block, currentTax, allOptimizations, warnings,
                   invoked, chunks, selectedIds, modifiedForm, whatIf>>
    /\ UNCHANGED calcVars

---------------------------------------------------------------------------
(* runWhatIfScenario(form, selectedOptimizationIds) *)

\* selectedOpts.forEach(opt => { if (opt.formOverrides) modifiedForm = {...} })
RECURSIVE ApplyOverrides(_, _)
ApplyOverrides(f, opts) ==
    IF opts = << >> THEN f
    ELSE ApplyOverrides(Spread(f, Head(opts).formOverrides), Tail(opts))

\* variant: a selection with an id that no recommendation has selects nothing
SelectedOpts_allOrNothing(optimizations, ids) ==
    LET Included(opt) == \E i \in DOMAIN ids : ids[i] = opt.id
    IN  IF \A i \in DOMAIN ids : ids[i] \in IdsOf(optimizations)
        THEN SelectSeq(optimizations, Included) ELSE << >>

\* optimizations.filter(opt => selectedOptimizationIds.includes(opt.id))
SelectedOpts(optimizations, ids) ==
    LET Included(opt) == \E i \in DOMAIN ids : ids[i] = opt.id
    IN  SelectSeq(optimizations, Included)

\* a caller calls runWhatIfScenario, which first runs analyzeTaxOptimizations(profile)
WhatIfBegin ==
    /\ pc = "idle"
    /\ caller' = "whatIf"
    /\ EnterAnalysis
    /\ UNCHANGED calcVars

\* ids a caller can pass: the ids of the recommendations and one that none has
SelectableIds == RecIds \cup {"no-such-id"}

\* the id arrays a caller passes: up to two ids, in either order
Selections ==
    {ids \in UNION {[1..n -> SelectableIds] : n \in 0..2} :
        \A i, j \in DOMAIN ids : i # j => ids[i] # ids[j]}

\* variant: let modifiedForm = form, the patches assigned into it, so that
\* the caller's object is written
WhatIfReturn_inPlace ==
    /\ pc = "whatIf"
    /\ \E ids \in Selections :
          LET selectedOpts == SelectedOpts(result.optimizations, ids)
              modified     == ApplyOverrides(profile, selectedOpts)
              newTax       == calculateTotalTaxAt(modified, clock)
          IN  /\ selectedIds' = ids
              /\ modifiedForm' = modified
              /\ profile' = modified
              /\ whatIf' = [originalTax |-> newTax,
                            newTax |-> newTax,
                            savings |-> 0,
                            selectedOptimizations |-> selectedOpts]
    /\ pc' = "done"
    /\ UNCHANGED <<clock, caller, block, currentTax, allOptimizations, warnings,
                   invoked, chunks, result>>
    /\ UNCHANGED calcVars

\* variant: the selection taken from everything the analyzers returned,
\* not from the optimizations of the analysis result
WhatIfReturn_unfiltered ==
    /\ pc = "whatIf"
    /\ \E ids \in Selections :
          LET selectedOpts == SelectedOpts(allOptimizations, ids)
              modified     == ApplyOverrides(Spread(profile, EmptyObject), selectedOpts)
              originalTax  == calculateTotalTaxAt(profile, clock)
              newTax       == calculateTotalTaxAt(modified, clock)
          IN  /\ selectedIds' = ids
              /\ modifiedForm' = modified
              /\ whatIf' = [originalTax |-> originalTax,
                            newTax |-> newTax,
                            savings |-> originalTax.finalTax - newTax.finalTax,
                            selectedOptimizations |-> selectedOpts]
    /\ pc' = "done"
    /\ UNCHANGED <<profile, clock, caller, block, currentTax, allOptimizations, warnings,
                   invoked, chunks, result>>
    /\ UNCHANGED calcVars

\* the rest of runWhatIfScenario, after the analysis has returned
WhatIfReturn ==
    /\ pc = "whatIf"
    /\ \E ids \in Selections :
          LET selectedOpts == SelectedOpts(result.optimizations, ids)
              modified     == ApplyOverrides(Spread(profile, EmptyObject), selectedOpts)
              originalTax  == calculateTotalTaxAt(profile, clock)
              newTax       == calculateTotalTaxAt(modified, clock)
          IN  /\ selectedIds' = ids
              /\ modifiedForm' = modified
              /\ whatIf' = [originalTax |-> originalTax,
                            newTax |-> newTax,
                            savings |-> originalTax.finalTax - newTax.finalTax,
                            selectedOptimizations |-> selectedOpts]
    /\ pc' = "done"
    /\ UNCHANGED <<profile, clock, caller, block, currentTax, allOptimizations, warnings,
                   invoked, chunks, result>>
    /\ UNCHANGED calcVars

---------------------------------------------------------------------------
(* The profiles and the specifications of the orchestrator                 *)

\* { filingStatus: 'single', totalWages: 60000 }
WagesForm == [filingStatus |-> Str("single"), totalWages |-> Num(60000)]

\* itemizing below the standard deduction, with a state of residence
ItemizingForm ==
    [filingStatus |-> Str("single"), deductionType |-> Str("itemized"),
     totalWages |-> Num(60000), stateLocalTaxes |-> Num(2000),
     mortgageInterest |-> Num(0), charityCash |-> Num(500), state |-> Str("CA")]

\* a refundable credit larger than the tax: finalTax is negative
RefundForm ==
    [filingStatus |-> Str("married"), totalWages |-> Num(30000),
     earnedIncomeCredit |-> Num(3000), stateOfResidence |-> Str("NY")]

Forms == {EmptyObject, WagesForm, ItemizingForm, RefundForm}

Dates == {<<2026, 1, 15>>}

CalcIdle ==
    /\ cOp = "idle"
    /\ cBrackets = << >>
    /\ cStatus = "single"
    /\ cX = 0
    /\ cY = 0
    /\ cRes = 0
    /\ cRes2 = 0

OrchIdle ==
    /\ caller = "none"
    /\ pc = "idle"
    /\ block = 0
    /\ currentTax = NoResult
    /\ allOptimizations = << >>
    /\ warnings = 0
    /\ invoked = << >>
    /\ chunks = << >>
    /\ result = NoResult
    /\ selectedIds = << >>
    /\ modifiedForm = EmptyObject
    /\ whatIf = NoResult

Init ==
    /\ CalcIdle
    /\ OrchIdle
    /\ profile \in Forms
    /\ clock \in Dates

Next ==
    \/ AnalyzeBegin
    \/ AnalyzerReturns
    \/ AnalyzerThrows
    \/ StateBlockSkipped
    \/ AnalyzeReturn

Spec == Init /\ [][Next]_vars

WhatIfNext ==
    \/ WhatIfBegin
    \/ AnalyzerReturns
    \/ AnalyzerThrows
    \/ StateBlockSkipped
    \/ AnalyzeReturn
    \/ WhatIfReturn

\* the forms the what-if scenarios are run on
WhatIfForms == {WagesForm, ItemizingForm}

WhatIfInit ==
    /\ CalcIdle
    /\ OrchIdle
    /\ profile \in WhatIfForms
    /\ clock \in Dates

SpecWhatIf == WhatIfInit /\ [][WhatIfNext]_vars

\* runWhatIfScenario on the itemizing profile alone, the profile on which
\* applying or not applying a patch changes the tax
ItemizingInit ==
    /\ CalcIdle
    /\ OrchIdle
    /\ profile = ItemizingForm
    /\ clock \in Dates

\* the profile has a state, so no try block is skipped
ItemizingNext ==
    \/ WhatIfBegin
    \/ AnalyzerReturns
    \/ AnalyzerThrows
    \/ AnalyzeReturn
    \/ WhatIfReturn

SpecWhatIfItemizing == ItemizingInit /\ [][ItemizingNext]_vars

---------------------------------------------------------------------------
(* Calculator harness: the inputs are drawn in the initial state and one   *)
(* action applies each calculator.                                         *)

\* the filingStatus values a caller can pass: the five known ones and one
\* the tables do not know
StatusInputs == FilingStatuses \cup {"unknown"}

RECURSIVE Floors(_)
Floors(brackets) ==
    IF brackets = << >> THEN {}
    ELSE {Head(brackets)[1]} \cup Floors(Tail(brackets))

\* amounts at and around every threshold of the status's two tables, the
\* amounts of the documented examples, and non-positive amounts
ExampleAmounts == {5000, 10000, 20000, 30000, 40000, 60000, 80000}

AmountsFor(status) ==
    LET s == IF status \in FilingStatuses THEN status ELSE "single"
        ts == Floors(TAX_BRACKETS_2025[s]) \cup Floors(CAPITAL_GAINS_BRACKETS_2025[s])
    IN  {t + d : t \in ts, d \in (0 - Delta)..Delta} \cup ExampleAmounts \cup {-50000}

\* every bracket table with floors strictly increasing from 0 within the bounds
SmallRates == {0, 10, 25}

SmallTables ==
    {t \in UNION {[1..n -> (0..MaxFloor) \X SmallRates] : n \in 1..MaxBrackets} :
        /\ t[1][1] = 0
        /\ \A i \in 1..(Len(t) - 1) : t[i][1] < t[i + 1][1]}

SmallAmounts == (0 - 1)..(MaxFloor + 2)

CalcInit ==
    /\ OrchIdle
    /\ profile = EmptyObject
    /\ clock = <<2026, 1, 15>>
    /\ cOp = "idle"
    /\ cRes = 0
    /\ cRes2 = 0
    /\ \/ /\ cStatus \in StatusInputs
          /\ cBrackets \in {TAX_BRACKETS_2025[IF cStatus \in FilingStatuses
                                              THEN cStatus ELSE "single"],
                            CapitalGainsBracketsFor(cStatus)}
          /\ cX \in AmountsFor(cStatus)
          /\ cY \in AmountsFor(cStatus)
       \/ /\ cStatus = "single"
          /\ cBrackets \in SmallTables
          /\ cX \in SmallAmounts
          /\ cY \in SmallAmounts

\* calculateBracketTax applied to each of the two amounts
BracketTaxCall ==
    /\ cOp = "idle"
    /\ cOp' = "bracketTax"
    /\ cRes' = calculateBracketTax(cX, cBrackets)
    /\ cRes2' = calculateBracketTax(cY, cBrackets)
    /\ UNCHANGED <<cBrackets, cStatus, cX, cY>>
    /\ UNCHANGED orchVars

\* calculateCapitalGainsTax(cX, cY, cStatus)
CapitalGainsTaxCall ==
    /\ cOp = "idle"
    /\ cOp' = "capitalGainsTax"
    /\ cRes' = calculateCapitalGainsTax(cX, cY, cStatus)
    /\ cRes2' = 0
    /\ UNCHANGED <<cBrackets, cStatus, cX, cY>>
    /\ UNCHANGED orchVars

CalcNext == BracketTaxCall \/ CapitalGainsTaxCall

SpecCalc == CalcInit /\ [][CalcNext]_vars

---------------------------------------------------------------------------
(* calculateAMT(form, currentTax, filingStatus) of the AMT analyzer.       *)
(* Incomes are whole dollars, the exemption and the AMT base are quarter   *)
(* dollars (the exemption loses 25 cents per dollar), taxes are quarter    *)
(* cents (1/400 dollar).  A tax that JavaScript computes from undefined    *)
(* is NaN.                                                                 *)

Undefined == [k |-> "undefined", v |-> 0]

\* currentTax.f: the number, or undefined when the result has no field f
Field(rec, f) == IF f \in DOMAIN rec THEN Num(rec[f]) ELSE Undefined

\* a || b for a number or undefined a
OrElse(a, b) == IF a.k = "number" /\ a.v # 0 THEN a ELSE b

\* a - b
Minus(a, b) == IF a.k = "number" /\ b.k = "number" THEN Num(a.v - b.v) ELSE NaN

\* Math.max(0, a)
MaxZero(a) == IF a.k = "number" THEN Num(Max(0, a.v)) ELSE NaN

\* AMT_2025.exemption[filingStatus] || AMT_2025.exemption.single
AMTBaseExemption(filingStatus) ==
    CASE filingStatus = "single"          -> 88100
      [] filingStatus = "married"         -> 137000
      [] filingStatus = "marriedSeparate" -> 68500
      [] filingStatus = "head"            -> 88100
      [] OTHER                            -> 88100

\* AMT_2025.phaseOut[filingStatus] || AMT_2025.phaseOut.single
AMTPhaseOutStart(filingStatus) ==
    CASE filingStatus = "single"          -> 609350
      [] filingStatus = "married"         -> 1218700
      [] filingStatus = "marriedSeparate" -> 609350
      [] filingStatus = "head"            -> 609350
      [] OTHER                            -> 609350

calculateAMTExemption_unfloored(amti, filingStatus) ==
    LET baseExemption == AMTBaseExemption(filingStatus)
        phaseOutStart == AMTPhaseOutStart(filingStatus)
    IN  IF amti <= phaseOutStart THEN 4 * baseExemption
        ELSE 4 * baseExemption - (amti - phaseOutStart)

\* calculateAMTExemption(amti, filingStatus), in quarter dollars
calculateAMTExemption(amti, filingStatus) ==
    LET baseExemption == AMTBaseExemption(filingStatus)
        phaseOutStart == AMTPhaseOutStart(filingStatus)
    IN  IF amti <= phaseOutStart THEN 4 * baseExemption
        ELSE LET excessIncome == amti - phaseOutStart
                 reduction    == excessIncome
             IN  Max(0, 4 * baseExemption - reduction)

\* AMT_2025.rates.threshold, halved for separate filers, in quarter dollars
AMTThreshold(filingStatus) ==
    IF filingStatus = "marriedSeparate" THEN 4 * (232600 \div 2) ELSE 4 * 232600

TentativeMinimumTax_thresholdNotHalved(amti, filingStatus) ==
    LET exemption    == calculateAMTExemption(amti, filingStatus)
        amtBase      == Max(0, 4 * amti - exemption)
        amtThreshold == 4 * 232600
    IN  [exemption |-> exemption,
         amtBase |-> amtBase,
         tentativeMinimumTax |->
            IF amtBase <= amtThreshold THEN amtBase * 26
            ELSE amtThreshold * 26 + (amtBase - amtThreshold) * 28]

\* the exemption, the AMT base (quarter dollars) and the tentative minimum
\* tax (quarter cents) that calculateAMT computes from the AMTI
TentativeMinimumTax(amti, filingStatus) ==
    LET exemption    == calculateAMTExemption(amti, filingStatus)
        amtBase      == Max(0, 4 * amti - exemption)
        amtThreshold == AMTThreshold(filingStatus)
    IN  [exemption |-> exemption,
         amtBase |-> amtBase,
         tentativeMinimumTax |->
            IF amtBase <= amtThreshold THEN amtBase * 26
            ELSE amtThreshold * 26 + (amtBase - amtThreshold) * 28]

calculateAMT(form, tax, filingStatus) ==
    LET regularTaxableIncome == tax.taxableIncome
        \* cents to quarter cents
        regularTax == LET r == OrElse(Field(tax, "regularTax"), Field(tax, "incomeTax"))
                      IN  IF r.k = "number" THEN Num(4 * r.v) ELSE r
        saltDeduction ==
            Min(Amt(form, "stateLocalTaxes") + Amt(form, "realEstateTaxes"), 40000)
        isoSpread     == Amt(form, "isoExerciseSpread")
        pabInterest   == Amt(form, "privateActivityBondInterest")
        depreciationAdjustment == Amt(form, "amtDepreciationAdjustment")
        amti == regularTaxableIncome
                  + (IF Truthy(form, "itemizedDeductions") /\ saltDeduction > 0
                     THEN saltDeduction ELSE 0)
                  + isoSpread + pabInterest + depreciationAdjustment
        tentative    == TentativeMinimumTax(amti, filingStatus)
        exemption    == tentative.exemption
        tentativeMinimumTax == tentative.tentativeMinimumTax
        amtOwed == MaxZero(Minus(Num(tentativeMinimumTax), regularTax))
    IN  [amti |-> amti,
         regularTaxableIncome |-> regularTaxableIncome,
         regularTax |-> regularTax,
         exemption |-> exemption,
         tentativeMinimumTax |-> tentativeMinimumTax,
         amtOwed |-> amtOwed,
         amtExposure |-> amtOwed,
         amtMargin |-> Minus(regularTax, Num(tentativeMinimumTax)),
         adjustments |-> [salt |-> saltDeduction, isoSpread |-> isoSpread,
                          pabInterest |-> pabInterest,
                          depreciation |-> depreciationAdjustment]]

\* the profiles of the AMT harness: every combination of a filing status,
\* wages, an ISO exercise spread and state and local taxes above the cap,
\* flagged itemizedDeductions, deducted (deductionType 'itemized') or both
AMTForms ==
    {Spread(Spread(st, w), Spread(iso, salt)) :
        st \in {EmptyObject} \cup {[filingStatus |-> Str(x)] : x \in FilingStatuses},
        w \in {EmptyObject} \cup {[totalWages |-> Num(n)] : n \in {60000, 700000, 1300000}},
        iso \in {EmptyObject, [isoExerciseSpread |-> Num(100000)]},
        salt \in {EmptyObject,
                  [itemizedDeductions |-> Bool(TRUE), stateLocalTaxes |-> Num(50000)],
                  [deductionType |-> Str("itemized"), stateLocalTaxes |-> Num(50000)],
                  [deductionType |-> Str("itemized"), itemizedDeductions |-> Bool(TRUE),
                   stateLocalTaxes |-> Num(50000)]}}

AMTInit ==
    /\ CalcIdle
    /\ OrchIdle
    /\ profile \in AMTForms
    /\ clock \in Dates

\* analyzeAMTOptimizations(profile) down to its call of calculateAMT
AMTCall ==
    /\ cOp = "idle"
    /\ cOp' = "amt"
    /\ currentTax' = calculateTotalTaxAt(profile, clock)
    /\ cRes' = calculateAMT(profile, currentTax', StrOr(profile, "filingStatus", "single"))
    /\ UNCHANGED <<cBrackets, cStatus, cX, cY, cRes2>>
    /\ UNCHANGED <<profile, clock, caller, pc, block, allOptimizations, warnings,
                   invoked, chunks, result, selectedIds, modifiedForm, whatIf>>

AMTNext == AMTCall

SpecAMT == AMTInit /\ [][AMTNext]_vars

---------------------------------------------------------------------------
(* Harness of the AMT exemption and of the tentative minimum tax: two      *)
(* AMTI amounts and a filing status are drawn in the initial state, one    *)
(* action applies each computation to both amounts.                        *)

\* for each exemption table row: the AMTI at which the AMT base leaves 0,
\* at which it reaches the rate threshold, the phase-out start, and the
\* AMTI at which the exemption is used up
AMTPoints ==
    UNION {{AMTBaseExemption(st),
            AMTBaseExemption(st) + AMTThreshold(st) \div 4,
            AMTPhaseOutStart(st),
            AMTPhaseOutStart(st) + 4 * AMTBaseExemption(st)} :
              st \in {"single", "married", "marriedSeparate"}}

AMTAmounts == {0, 2000000} \cup {t + d : t \in AMTPoints, d \in (0 - Delta)..Delta}

AMTCalcInit ==
    /\ OrchIdle
    /\ profile = EmptyObject
    /\ clock = <<2026, 1, 15>>
    /\ cOp = "idle"
    /\ cBrackets = << >>
    /\ cRes = 0
    /\ cRes2 = 0
    /\ cStatus \in StatusInputs
    /\ cX \in AMTAmounts
    /\ cY \in AMTAmounts

\* calculateAMTExemption applied to each of the two amounts
ExemptionCall ==
    /\ cOp = "idle"
    /\ cOp' = "exemption"
    /\ cRes' = calculateAMTExemption(cX, cStatus)
    /\ cRes2' = calculateAMTExemption(cY, cStatus)
    /\ UNCHANGED <<cBrackets, cStatus, cX, cY>>
    /\ UNCHANGED orchVars

\* the tentative minimum tax of calculateAMT for each of the two amounts
TentativeMinimumTaxCall ==
    /\ cOp = "idle"
    /\ cOp' = "tentative"
    /\ cRes' = TentativeMinimumTax(cX, cStatus)
    /\ cRes2' = TentativeMinimumTax(cY, cStatus)
    /\ UNCHANGED <<cBrackets, cStatus, cX, cY>>
    /\ UNCHANGED orchVars

AMTCalcNext == ExemptionCall \/ TentativeMinimumTaxCall

SpecAMTCalc == AMTCalcInit /\ [][AMTCalcNext]_vars

---------------------------------------------------------------------------
(* Harness of calculateTotalTax: the profile and the date are drawn in the *)
(* initial state; the pipeline is applied once, again at a later date, or  *)
(* to three copies of the profile that differ in one monetary field.       *)

\* wages at and around the standard deduction and the bracket floors above it
Wages ==
    {0, 60000} \cup {15700 + t + d : t \in Floors(TAX_BRACKETS_2025["single"]),
                                      d \in (0 - Delta)..Delta}

\* { filingStatus: 'single', totalWages: W, deductionType: 'standard' }
WageOnlyForm(W) ==
    [filingStatus |-> Str("single"), totalWages |-> Num(W),
     deductionType |-> Str("standard")]

\* self-employed, Schedule C entered as gross receipts and expenses
ManualScheduleCForm ==
    [filingStatus |-> Str("single"), hasScheduleC |-> Bool(TRUE),
     scheduleC |-> Obj([grossReceipts |-> Num(80000), expenses |-> Num(20000)])]

\* self-employed, Schedule C with the net profit given
ParsedScheduleCForm ==
    [filingStatus |-> Str("head"), totalWages |-> Num(20000), hasScheduleC |-> Bool(TRUE),
     scheduleC |-> Obj([netProfit |-> Num(40000), grossReceipts |-> Num(80000),
                        expenses |-> Num(20000)])]

\* high wages with rental income, capital gains and dividends
InvestorForm ==
    [filingStatus |-> Str("single"), totalWages |-> Num(250000),
     qualifiedDividends |-> Num(5000), ordinaryDividends |-> Num(5000),
     hasScheduleE |-> Bool(TRUE),
     scheduleE |-> Obj([rentalIncome |-> Num(30000), rentalExpenses |-> Num(10000)]),
     hasScheduleD |-> Bool(TRUE),
     scheduleD |-> Obj([shortTermGain |-> Num(4000), longTermGain |-> Num(10000)]),
     totalWithholding |-> Num(50000)]

\* a married couple with a qualifying child, itemizing
FamilyForm ==
    [filingStatus |-> Str("married"), totalWages |-> Num(120000),
     deductionType |-> Str("itemized"), stateLocalTaxes |-> Num(30000),
     mortgageInterest |-> Num(12000), studentLoanInterest |-> Num(2500),
     dependents |-> Arr(<<[qualifyingChild |-> TRUE, childTaxCredit |-> TRUE]>>),
     earnedIncomeCredit |-> Num(500)]

\* a filer who turns 65 on 15 June 2026, with tips
SeniorForm ==
    [filingStatus |-> Str("single"), totalWages |-> Num(60000),
     tipIncome |-> Num(10000), birthDate |-> Date(1961, 6, 15)]

\* a head of household with two qualifying children, whose non-refundable
\* credits exceed the tax, with an earned income credit and withholding
LowIncomeFamilyForm ==
    [filingStatus |-> Str("head"), totalWages |-> Num(30000),
     dependents |-> Arr(<<[qualifyingChild |-> TRUE, childTaxCredit |-> TRUE],
                          [qualifyingChild |-> TRUE, childTaxCredit |-> TRUE]>>),
     earnedIncomeCredit |-> Num(3000), totalWithholding |-> Num(1200)]

\* a filer who lives on qualified dividends: the qualified income is larger
\* than the taxable income
DividendForm ==
    [filingStatus |-> Str("single"), ordinaryDividends |-> Num(100000),
     qualifiedDividends |-> Num(100000)]

PipelineForms ==
    {WageOnlyForm(W) : W \in Wages}
      \cup {EmptyObject, ManualScheduleCForm, ParsedScheduleCForm, InvestorForm,
            FamilyForm, SeniorForm, LowIncomeFamilyForm, DividendForm}

PipelineDates == {<<2026, 1, 15>>, <<2026, 6, 14>>, <<2026, 6, 15>>}

\* whether date a is before date b
Before(a, b) ==
    \/ a[1] < b[1]
    \/ a[1] = b[1] /\ a[2] < b[2]
    \/ a[1] = b[1] /\ a[2] = b[2] /\ a[3] < b[3]

\* the monetary input fields calculateTotalTax reads, as paths into the form
TopLevelMoneyFields ==
    {"totalWages", "taxableInterest", "ordinaryDividends", "qualifiedDividends",
     "taxableIra", "taxablePensions", "taxableSocialSecurity", "capitalGainLoss",
     "otherIncome", "educatorExpenses", "hsaDeduction", "selfEmploymentTaxDeduction",
     "selfEmployedSEPSimple", "selfEmployedHealthInsurance", "penaltyEarlyWithdrawal",
     "alimonyPaid", "iraDeduction", "studentLoanInterest", "tipIncome", "overtimeIncome",
     "autoLoanInterest", "stateLocalTaxes", "realEstateTaxes", "medicalExpenses",
     "mortgageInterest", "charityCash", "charityNonCash", "casualtyLosses",
     "otherItemized", "childTaxCredit", "creditOtherDependents", "educationCredits",
     "retirementSaversCredit", "childCareCredit", "earnedIncomeCredit", "otherCredits",
     "totalWithholding", "estimatedTaxPayments", "amountAppliedFromPriorYear"}

NestedMoneyFields ==
    {<<"scheduleC", "netProfit">>, <<"scheduleC", "grossReceipts">>,
     <<"scheduleC", "expenses">>, <<"scheduleE", "netIncome">>,
     <<"scheduleE", "rentalIncome">>, <<"scheduleE", "rentalExpenses">>,
     <<"scheduleD", "shortTermGain">>, <<"scheduleD", "longTermGain">>}

MoneyFields == {<<f>> : f \in TopLevelMoneyFields} \cup NestedMoneyFields

\* a nested field has a place only in a form that holds the schedule object
HasPlace(form, path) ==
    Len(path) = 1 \/ (Has(form, path[1]) /\ form[path[1]].k = "object")

\* the object o with field f set to val / without field f
With(o, f, val) == [x \in DOMAIN o \cup {f} |-> IF x = f THEN val ELSE o[x]]

Without(o, f) == [x \in DOMAIN o \ {f} |-> o[x]]

SetAt(form, path, val) ==
    IF Len(path) = 1 THEN With(form, path[1], val)
    ELSE With(form, path[1], Obj(With(form[path[1]].v, path[2], val)))

RemoveAt(form, path) ==
    IF Len(path) = 1 THEN Without(form, path[1])
    ELSE With(form, path[1], Obj(Without(form[path[1]].v, path[2])))

PipelineInit ==
    /\ CalcIdle
    /\ OrchIdle
    /\ profile \in PipelineForms
    /\ clock \in PipelineDates

\* calculateTotalTax(profile)
TotalTaxCall ==
    /\ cOp = "idle"
    /\ cOp' = "totalTax"
    /\ cRes' = calculateTotalTaxAt(profile, clock)
    /\ UNCHANGED <<cBrackets, cStatus, cX, cY, cRes2>>
    /\ UNCHANGED orchVars

\* time passes between two calls
ClockAdvances ==
    /\ cOp = "totalTax"
    /\ cOp' = "later"
    /\ \E d \in PipelineDates : Before(clock, d) /\ clock' = d
    /\ UNCHANGED <<cBrackets, cStatus, cX, cY, cRes, cRes2>>
    /\ UNCHANGED <<profile, caller, pc, block, currentTax, allOptimizations, warnings,
                   invoked, chunks, result, selectedIds, modifiedForm, whatIf>>

\* calculateTotalTax(profile), called a second time
TotalTaxAgain ==
    /\ cOp = "later"
    /\ cOp' = "again"
    /\ cRes2' = calculateTotalTaxAt(profile, clock)
    /\ UNCHANGED <<cBrackets, cStatus, cX, cY, cRes>>
    /\ UNCHANGED orchVars

\* calculateTotalTax applied to the profile with one monetary field set to 0
\* (cRes), absent (cRes2) and set to a non-numeric string (cY)
CoercionCall ==
    /\ cOp = "idle"
    /\ cOp' = "coerce"
    /\ \E path \in MoneyFields :
          /\ HasPlace(profile, path)
          /\ cX' = path
          /\ cRes' = calculateTotalTaxAt(SetAt(profile, path, Num(0)), clock)
          /\ cRes2' = calculateTotalTaxAt(RemoveAt(profile, path), clock)
          /\ cY' = calculateTotalTaxAt(SetAt(profile, path, Str("n/a")), clock)
    /\ UNCHANGED <<cBrackets, cStatus>>
    /\ UNCHANGED orchVars

PipelineNext == TotalTaxCall \/ ClockAdvances \/ TotalTaxAgain \/ CoercionCall

SpecPipeline == PipelineInit /\ [][PipelineNext]_vars

---------------------------------------------------------------------------
(* The analyzers of the repository, as far as a profile without amounts    *)
(* exercises them.  Every function that can push a recommendation is here  *)
(* with the condition under which it does; where the condition needs an    *)
(* amount above zero or a birth date, the recommendation is the marker     *)
(* Unmodelled(id) in place of its computed savings.                        *)

CATEGORY_RETIREMENT == "Retirement"

CATEGORY_CREDITS == "Credits"

CATEGORY_SELF_EMPLOYMENT == "Self-Employment"

CATEGORY_INCOME_TIMING == "Income Timing"

DIFFICULTY_HARD == "hard"

UNMODELLED == "unmodelled"

Recommendation(id, category, difficulty, savings) ==
    [id |-> id, category |-> category, difficulty |-> difficulty,
     formOverrides |-> EmptyObject, potentialSavings |-> Num(savings)]

WithOverrides(rec, overrides) == [rec EXCEPT !.formOverrides = overrides]

Unmodelled(id) == Recommendation(id, UNMODELLED, UNMODELLED, 0)

\* Math.round(amount * pct / 100), for amount >= 0
RoundPct(amount, pct) == (amount * pct + 50) \div 100

\* getMarginalRate(form), in percent.  Here and in the analyzers below, tax
\* is what the function's own call of calculateTotalTax(form) returns: the
\* result the orchestrator computed on entry, for the same profile and date.
getMarginalRate(tax) ==
    LET taxableIncome == tax.taxableIncome
    IN  IF taxableIncome > 626350 THEN 37
        ELSE IF taxableIncome > 250525 THEN 35
        ELSE IF taxableIncome > 197300 THEN 32
        ELSE IF taxableIncome > 103350 THEN 24
        ELSE IF taxableIncome > 48475 THEN 22
        ELSE IF taxableIncome > 11925 THEN 12
        ELSE 10

\* form.f !== false
NotFalse(form, f) == ~(Has(form, f) /\ form[f] = Bool(FALSE))

\* form.hasScheduleD ? (parseFloat(form.scheduleD?.f) || 0) : 0
OnScheduleD(form, f) ==
    IF Truthy(form, "hasScheduleD") /\ Has(form, "scheduleD") /\ form["scheduleD"].k = "object"
    THEN Amt(form["scheduleD"].v, f)
    ELSE 0

\* STANDARD_DEDUCTIONS_2025[filingStatus] || STANDARD_DEDUCTIONS_2025.single
StandardDeductionOf(form) ==
    LET filingStatus == StrOr(form, "filingStatus", "single")
    IN  IF filingStatus \in FilingStatuses THEN STANDARD_DEDUCTIONS_2025[filingStatus]
        ELSE STANDARD_DEDUCTIONS_2025["single"]

\* Math.min(stateLocalTaxes + realEstateTaxes, saltCap)
ActualSalt(form) ==
    LET saltCap == IF StrOr(form, "filingStatus", "single") = "marriedSeparate"
                   THEN 20000 ELSE 40000
    IN  Min(Amt(form, "stateLocalTaxes") + Amt(form, "realEstateTaxes"), saltCap)

calculateItemizedTotal(form) ==
    Amt(form, "medicalExpenses") + ActualSalt(form) + Amt(form, "mortgageInterest")
      + Amt(form, "charityCash") + Amt(form, "charityNonCash")
      + Amt(form, "casualtyLosses") + Amt(form, "otherItemized")

\* if (opt) optimizations.push(opt), for each of the entries in turn
IsRecommendation(opt) == "id" \in DOMAIN opt

Pushed(entries) == SelectSeq(entries, IsRecommendation)

\* variant: each recommendation carries the patch of the other one
analyzeItemizedVsStandard_swappedPatch(form, tax, today) ==
    LET standardDeduction == StandardDeductionOf(form)
        itemizedTotal     == calculateItemizedTotal(form)
        currentDeductionType == StrOr(form, "deductionType", "standard")
    IN  IF currentDeductionType = "itemized" /\ standardDeduction > itemizedTotal
        THEN WithOverrides(
                  Recommendation("deduction-switch-to-standard", CATEGORY_DEDUCTIONS,
                                 DIFFICULTY_EASY,
                                 RoundPct(standardDeduction - itemizedTotal,
                                          getMarginalRate(tax))),
                  [deductionType |-> Str("itemized")])
        ELSE IF currentDeductionType # "itemized" /\ itemizedTotal > standardDeduction
        THEN WithOverrides(
                  Recommendation("deduction-switch-to-itemized", CATEGORY_DEDUCTIONS,
                                 DIFFICULTY_EASY,
                                 RoundPct(itemizedTotal - standardDeduction,
                                          getMarginalRate(tax))),
                  [deductionType |-> Str("standard")])
        ELSE Null

analyzeItemizedVsStandard(form, tax, today) ==
    LET standardDeduction == StandardDeductionOf(form)
        itemizedTotal     == calculateItemizedTotal(form)
        currentDeductionType == StrOr(form, "deductionType", "standard")
    IN  IF currentDeductionType = "itemized" /\ standardDeduction > itemizedTotal
        THEN WithOverrides(
                  Recommendation("deduction-switch-to-standard", CATEGORY_DEDUCTIONS,
                                 DIFFICULTY_EASY,
                                 RoundPct(standardDeduction - itemizedTotal,
                                          getMarginalRate(tax))),
                  [deductionType |-> Str("standard")])
        ELSE IF currentDeductionType # "itemized" /\ itemizedTotal > standardDeduction
        THEN WithOverrides(
                  Recommendation("deduction-switch-to-itemized", CATEGORY_DEDUCTIONS,
                                 DIFFICULTY_EASY,
                                 RoundPct(itemizedTotal - standardDeduction,
                                          getMarginalRate(tax))),
                  [deductionType |-> Str("itemized")])
        ELSE Null

analyzeSALTOptimization(form, tax, today) ==
    LET saltCap == IF StrOr(form, "filingStatus", "single") = "marriedSeparate"
                   THEN 20000 ELSE 40000
        totalSALT == Amt(form, "stateLocalTaxes") + Amt(form, "realEstateTaxes")
    IN  IF totalSALT > saltCap
        THEN Recommendation("deduction-salt-cap-hit", CATEGORY_DEDUCTIONS,
                               DIFFICULTY_HARD, 0)
        ELSE IF /\ totalSALT > 0
                /\ StrOr(form, "deductionType", "") # "itemized"
                /\ calculateItemizedTotal(form) + totalSALT > StandardDeductionOf(form)
        THEN Recommendation("deduction-maximize-salt", CATEGORY_DEDUCTIONS,
                               DIFFICULTY_EASY,
                               RoundPct(calculateItemizedTotal(form) + totalSALT
                                          - StandardDeductionOf(form),
                                        getMarginalRate(tax)))
        ELSE Null

analyzeCharitableBunching(form, tax, today) ==
    LET totalCharity  == Amt(form, "charityCash") + Amt(form, "charityNonCash")
        otherItemized == Amt(form, "medicalExpenses") + ActualSalt(form)
                           + Amt(form, "mortgageInterest") + Amt(form, "casualtyLosses")
                           + Amt(form, "otherItemized")
        gap == StandardDeductionOf(form) - otherItemized
    IN  IF gap > 0 /\ gap < 10000 /\ totalCharity > 0
        THEN Recommendation("deduction-charitable-bunching", CATEGORY_DEDUCTIONS,
                               DIFFICULTY_MEDIUM,
                               RoundPct(totalCharity, getMarginalRate(tax)))
        ELSE Null

\* needs a birth date, IRA distributions and charitable gifts
analyzeQCDOpportunity(form) ==
    IF /\ Has(form, "birthDate")
       /\ Amt(form, "taxableIra") > 0
       /\ Amt(form, "charityCash") + Amt(form, "charityNonCash") > 0
    THEN Unmodelled("deduction-qcd")
    ELSE Null

analyzeAppreciatedAssetDonation(form) ==
    LET longTermGains == OnScheduleD(form, "longTermGain")
        charityCash   == Amt(form, "charityCash")
    IN  IF longTermGains > 1000 /\ charityCash > 0
        THEN Recommendation("deduction-appreciated-assets", CATEGORY_DEDUCTIONS,
                               DIFFICULTY_MEDIUM,
                               RoundPct(Min(longTermGains, charityCash), 15))
        ELSE Null

\* needs medical expenses between 3.75% and 7.5% of the AGI
analyzeMedicalExpenseTiming(form) ==
    IF Amt(form, "medicalExpenses") > 0
    THEN Unmodelled("deduction-medical-timing")
    ELSE Null

analyzeAboveTheLineDeductions(form, tax, today) ==
    LET educatorExpenses == Amt(form, "educatorExpenses")
    IN  IF Truthy(form, "isEducator") /\ educatorExpenses < 300
        THEN Recommendation("deduction-educator-expense", CATEGORY_DEDUCTIONS,
                               DIFFICULTY_EASY,
                               RoundPct(300 - educatorExpenses,
                                        getMarginalRate(tax)))
        ELSE Null

analyzeDeductionOptimizations(form, tax, today) ==
    Pushed(<< analyzeItemizedVsStandard(form, tax, today), analyzeSALTOptimization(form, tax, today),
              analyzeCharitableBunching(form, tax, today), analyzeQCDOpportunity(form),
              analyzeAppreciatedAssetDonation(form), analyzeMedicalExpenseTiming(form),
              analyzeAboveTheLineDeductions(form, tax, today) >>)

\* LIMITS_2025.traditionalIRA + (age >= 50 ? LIMITS_2025.catchUpIRA : 0)
MaxIRAContribution(form, today) ==
    7000 + (IF calculateAge(form, today) >= 50 THEN 1000 ELSE 0)

\* needs wages above zero
analyze401kContribution(form) ==
    IF Amt(form, "totalWages") <= 0 THEN Null
    ELSE Unmodelled("retirement-401k-max")

analyzeTraditionalIRA(form, tax, today) ==
    LET currentIRADeduction == Amt(form, "iraDeduction")
        maxContribution     == MaxIRAContribution(form, today)
    IN  IF Amt(form, "totalWages") <= 0 /\ ~Truthy(form, "hasScheduleC") THEN Null
        ELSE IF currentIRADeduction >= maxContribution THEN Null
        ELSE Recommendation("retirement-ira", CATEGORY_RETIREMENT, DIFFICULTY_EASY,
                               RoundPct(maxContribution - currentIRADeduction,
                                        getMarginalRate(tax)))

analyzeHSAContribution(form, tax, today) ==
    LET currentHSA == Amt(form, "hsaDeduction")
        maxHSA == (IF StrOr(form, "hsaCoverage", "self") = "family" THEN 8550 ELSE 4300)
                    + (IF calculateAge(form, today) >= 55 THEN 1000 ELSE 0)
        hasHDHP == NotFalse(form, "hasHDHP")
    IN  IF currentHSA < maxHSA /\ hasHDHP
        THEN Recommendation("retirement-hsa", CATEGORY_RETIREMENT, DIFFICULTY_EASY,
                               RoundPct(maxHSA - currentHSA,
                                        getMarginalRate(tax)))
        ELSE Null

\* needs wages above zero
analyzeSpousalIRA(form) ==
    IF ~(Has(form, "filingStatus") /\ form["filingStatus"] = Str("married")) THEN Null
    ELSE IF Amt(form, "totalWages") <= 0 THEN Null
    ELSE Unmodelled("retirement-spousal-ira")

\* needs retirement contributions above zero
analyzeSaversCredit(form, tax, today) ==
    LET agi == tax.agi
        filingStatus == StrOr(form, "filingStatus", "single")
        agiLimit == CASE filingStatus \in {"married", "widow"} -> 76500
                      [] filingStatus = "head"                -> 57375
                      [] OTHER                                -> 38250
    IN  IF agi > agiLimit THEN Null
        ELSE IF Amt(form, "retirement401k") + Amt(form, "iraDeduction") > 0
        THEN Unmodelled("retirement-savers-credit")
        ELSE Null

\* scheduleC.netProfit, or grossReceipts - expenses when it is undefined or 0
NetProfitOf(form) ==
    LET scheduleC == IF Has(form, "scheduleC") /\ form["scheduleC"].k = "object"
                     THEN form["scheduleC"].v ELSE EmptyObject
    IN  IF Has(scheduleC, "netProfit") /\ scheduleC["netProfit"] # Num(0)
        THEN Amt(scheduleC, "netProfit")
        ELSE Amt(scheduleC, "grossReceipts") - Amt(scheduleC, "expenses")

\* needs a Schedule C profit above zero
analyzeSEPIRA(form) ==
    IF ~Truthy(form, "hasScheduleC") THEN Null
    ELSE IF NetProfitOf(form) <= 0 THEN Null
    ELSE Unmodelled("retirement-sep-ira")

analyzeBackdoorRoth(form, tax, today) ==
    LET agi == tax.agi
        filingStatus == StrOr(form, "filingStatus", "single")
        limitsEnd == CASE filingStatus = "married"         -> 246000
                       [] filingStatus = "marriedSeparate" -> 10000
                       [] OTHER                            -> 165000
    IN  IF agi < limitsEnd THEN Null
        ELSE Recommendation("retirement-backdoor-roth", CATEGORY_RETIREMENT,
                               DIFFICULTY_MEDIUM, 0)

analyzeRothConversion(form, tax, today) ==
    LET taxableIncome == tax.taxableIncome
        limits == IF StrOr(form, "filingStatus", "single") = "married"
                  THEN <<23850, 96950, 206700, 394600>>
                  ELSE <<11925, 48475, 103350, 197300>>
        above  == {i \in 2..Len(limits) : taxableIncome < limits[i]}
    IN  IF above = {} THEN Null
        ELSE LET i == CHOOSE x \in above : \A y \in above : x <= y
             IN  IF limits[i] - taxableIncome > 5000
                 THEN Recommendation("retirement-roth-conversion", CATEGORY_RETIREMENT,
                                        DIFFICULTY_MEDIUM, 0)
                 ELSE Null

analyzeRetirementOptimizations(form, tax, today) ==
    Pushed(<< analyze401kContribution(form), analyzeTraditionalIRA(form, tax, today),
              analyzeHSAContribution(form, tax, today), analyzeSpousalIRA(form),
              analyzeSaversCredit(form, tax, today), analyzeSEPIRA(form),
              analyzeBackdoorRoth(form, tax, today), analyzeRothConversion(form, tax, today) >>)

\* the entries analyzeEnergyCredits pushes, in order
analyzeEnergyCredits(form) ==
    LET currentCredits == Amt(form, "energyCredits")
        solarExpenses  == Amt(form, "solarExpenses")
        homeImprovementExpenses == Amt(form, "homeImprovementExpenses")
        heatPumpExpenses        == Amt(form, "heatPumpExpenses")
    IN  << IF solarExpenses > 0 /\ 100 * currentCredits < 30 * solarExpenses
           THEN Recommendation("credit-residential-energy", CATEGORY_CREDITS,
                               DIFFICULTY_MEDIUM, RoundPct(solarExpenses, 30))
           ELSE Null,
           IF (homeImprovementExpenses > 0 \/ heatPumpExpenses > 0) /\ currentCredits < 1000
           THEN Recommendation("credit-home-improvement", CATEGORY_CREDITS,
                               DIFFICULTY_MEDIUM,
                               Min(RoundPct(homeImprovementExpenses + heatPumpExpenses, 30),
                                   3200))
           ELSE Null >>

\* the entries analyzeNew2025Deductions pushes, in order: the tips, overtime
\* and auto loan deductions need an amount above zero, the senior bonus an
\* age of 65
analyzeNew2025Deductions(form, tax, today) ==
    LET agi == tax.agi
        end == IF StrOr(form, "filingStatus", "single") = "married" THEN 550000 ELSE 400000
    IN  << IF Amt(form, "tipIncome") > 0 /\ agi < end
           THEN Unmodelled("credit-tips-deduction") ELSE Null,
           IF Amt(form, "overtimeIncome") > 0 /\ agi < end
           THEN Unmodelled("credit-overtime-deduction") ELSE Null,
           IF Amt(form, "autoLoanInterest") > 0
           THEN Unmodelled("credit-auto-loan-deduction") ELSE Null,
           IF calculateAge(form, today) >= 65 /\ ~Truthy(form, "seniorBonusClaimed")
           THEN Unmodelled("credit-senior-bonus") ELSE Null >>

\* the child tax, earned income, education and child care analyses return
\* nothing
analyzeCreditsOptimizations(form, tax, today) ==
    Pushed(analyzeNew2025Deductions(form, tax, today) \o analyzeEnergyCredits(form))

\* needs a Schedule C profit above zero
analyzeSelfEmploymentOptimizations(form) ==
    IF ~Truthy(form, "hasScheduleC") THEN << >>
    ELSE IF NetProfitOf(form) <= 0 THEN << >>
    ELSE << Unmodelled("se-qbi-deduction") >>

analyzeTaxLossHarvesting(form, tax, today) ==
    LET totalGains  == OnScheduleD(form, "longTermGain") + OnScheduleD(form, "shortTermGain")
        totalLosses == OnScheduleD(form, "longTermLoss") + OnScheduleD(form, "shortTermLoss")
        netCapitalGain == totalGains - totalLosses
    IN  IF netCapitalGain > 0
        THEN Recommendation("cg-tax-loss-harvesting", CATEGORY_CAPITAL_GAINS,
                               DIFFICULTY_MEDIUM,
                               RoundPct(Min(totalGains, 3000),
                                        getMarginalRate(tax)))
        ELSE IF totalGains = 0 /\ NotFalse(form, "hasInvestments")
        THEN Recommendation("cg-tax-loss-3000", CATEGORY_CAPITAL_GAINS,
                               DIFFICULTY_MEDIUM,
                               RoundPct(3000, getMarginalRate(tax)))
        ELSE Null

analyzeTaxGainHarvesting(form, tax, today) ==
    LET taxableIncome == tax.taxableIncome
        filingStatus  == StrOr(form, "filingStatus", "single")
        zeroPercentLimit == CASE filingStatus = "married" -> 96700
                              [] filingStatus = "head"    -> 64750
                              [] OTHER                    -> 48350
        roomInZeroBracket == zeroPercentLimit - taxableIncome
    IN  IF roomInZeroBracket > 1000
        THEN Recommendation("cg-tax-gain-harvesting", CATEGORY_CAPITAL_GAINS,
                               DIFFICULTY_MEDIUM, 0)
        ELSE Null

analyzeHoldingPeriod(form) ==
    IF OnScheduleD(form, "shortTermGain") > 1000
    THEN Recommendation("cg-holding-period", CATEGORY_CAPITAL_GAINS,
                           DIFFICULTY_EASY, 0)
    ELSE Null

\* the warning close to the threshold needs investment income above 5000
analyzeNIITPlanning(form, tax, today) ==
    LET agi == tax.agi
        filingStatus  == StrOr(form, "filingStatus", "single")
        niitThreshold == CASE filingStatus = "married"         -> 250000
                           [] filingStatus = "marriedSeparate" -> 125000
                           [] OTHER                            -> 200000
        scheduleE == IF Truthy(form, "hasScheduleE") /\ Has(form, "scheduleE")
                        /\ form["scheduleE"].k = "object"
                     THEN form["scheduleE"].v ELSE EmptyObject
        scheduleEIncome == IF Has(scheduleE, "netIncome") THEN Amt(scheduleE, "netIncome")
                           ELSE Amt(scheduleE, "rentalIncome") - Amt(scheduleE, "rentalExpenses")
        investmentIncome == Amt(form, "taxableInterest") + Amt(form, "ordinaryDividends")
                              + Amt(form, "capitalGainLoss") + scheduleEIncome
    IN  IF agi > niitThreshold /\ investmentIncome > 0
        THEN Recommendation("cg-niit", CATEGORY_CAPITAL_GAINS, DIFFICULTY_HARD, 0)
        ELSE IF 10 * agi > 9 * niitThreshold /\ agi < niitThreshold /\ investmentIncome > 5000
        THEN Unmodelled("cg-niit-warning")
        ELSE Null

\* needs a gain on the sale of a home
analyzePrimaryResidenceExclusion(form) ==
    IF Amt(form, "homeSaleGain") > 0 THEN Unmodelled("cg-home-exclusion") ELSE Null

\* needs dividends above 1000
analyzeQualifiedDividends(form) ==
    LET ordinaryDividends == Amt(form, "ordinaryDividends")
        nonQualified == ordinaryDividends - Amt(form, "qualifiedDividends")
    IN  IF nonQualified > 1000 /\ ordinaryDividends > 0
        THEN Unmodelled("cg-qualified-dividends") ELSE Null

analyzeInstallmentSale(form, tax, today) ==
    LET capitalGains == OnScheduleD(form, "longTermGain") + OnScheduleD(form, "shortTermGain")
    IN  IF capitalGains > 100000 /\ tax.taxableIncome > 250000
        THEN Recommendation("cg-installment-sale", CATEGORY_CAPITAL_GAINS,
                               DIFFICULTY_HARD, 0)
        ELSE Null

\* needs capital losses
analyzeWashSaleRisk(form) ==
    LET totalLosses == OnScheduleD(form, "longTermLoss") + OnScheduleD(form, "shortTermLoss")
    IN  IF totalLosses <= 0 THEN Null
        ELSE IF totalLosses > 1000 \/ Amt(form, "washSaleAdjustment") > 0
        THEN Unmodelled("cg-wash-sale-warning")
        ELSE Null

analyzeCapitalGainsOptimizations(form, tax, today) ==
    Pushed(<< analyzeTaxLossHarvesting(form, tax, today), analyzeTaxGainHarvesting(form, tax, today),
              analyzeHoldingPeriod(form), analyzeNIITPlanning(form, tax, today),
              analyzePrimaryResidenceExclusion(form), analyzeQualifiedDividends(form),
              analyzeInstallmentSale(form, tax, today), analyzeWashSaleRisk(form) >>)

\* needs a business
analyzeAugustaRuleOptimization(form) ==
    IF ~Truthy(form, "hasScheduleC") /\ ~Truthy(form, "hasSCorp")
         /\ ~Truthy(form, "hasPartnership")
    THEN << >>
    ELSE << Unmodelled("augusta-rule") >>

\* a > n, a <= n and a < n for a number or NaN a: false for NaN
Above(a, n) == a.k = "number" /\ a.v > n

AtMost(a, n) == a.k = "number" /\ a.v <= n

Below(a, n) == a.k = "number" /\ a.v < n

\* the entries analyzeAMTTriggers pushes, in order
analyzeAMTTriggers(amtResult) ==
    << IF amtResult.adjustments.isoSpread > 50000
       THEN Recommendation("amt-iso-trigger", CATEGORY_CAPITAL_GAINS, DIFFICULTY_HARD, 0)
       ELSE Null,
       IF amtResult.adjustments.salt > 30000
       THEN Recommendation("amt-salt-trigger", CATEGORY_DEDUCTIONS, DIFFICULTY_MEDIUM, 0)
       ELSE Null >>

\* variant: the HSA strategy priced at the marginal rate of the profile, as
\* the retirement analyzer prices it, in place of the 26% AMT rate
analyzeAMTStrategies_marginalRate(form, amtResult, tax) ==
    IF AtMost(amtResult.amtExposure, 0) /\ Above(amtResult.amtMargin, 400 * 50000)
    THEN << Null, Null, Null >>
    ELSE LET has401k == Truthy(form, "has401k") \/ Amt(form, "retirement401k") > 0
             hasHSA  == Amt(form, "hsaContributions") > 0
         IN  << IF ~has401k \/ Amt(form, "retirement401k") < 23500
                THEN Recommendation("amt-strategy-401k", CATEGORY_RETIREMENT,
                                    DIFFICULTY_EASY, RoundPct(23500, 26))
                ELSE Null,
                IF ~hasHSA
                THEN Recommendation("amt-strategy-hsa", CATEGORY_RETIREMENT,
                                    DIFFICULTY_EASY, RoundPct(4300, getMarginalRate(tax)))
                ELSE Null,
                Recommendation("amt-strategy-charity", CATEGORY_DEDUCTIONS,
                               DIFFICULTY_EASY, 0) >>

\* the entries analyzeAMTStrategies pushes, in order, none on its early
\* return; amtExposure and amtMargin are in quarter cents
analyzeAMTStrategies(form, amtResult, tax) ==
    IF AtMost(amtResult.amtExposure, 0) /\ Above(amtResult.amtMargin, 400 * 50000)
    THEN << Null, Null, Null >>
    ELSE LET has401k == Truthy(form, "has401k") \/ Amt(form, "retirement401k") > 0
             hasHSA  == Amt(form, "hsaContributions") > 0
         IN  << IF ~has401k \/ Amt(form, "retirement401k") < 23500
                THEN Recommendation("amt-strategy-401k", CATEGORY_RETIREMENT,
                                    DIFFICULTY_EASY, RoundPct(23500, 26))
                ELSE Null,
                IF ~hasHSA
                THEN Recommendation("amt-strategy-hsa", CATEGORY_RETIREMENT,
                                    DIFFICULTY_EASY, RoundPct(4300, 26))
                ELSE Null,
                Recommendation("amt-strategy-charity", CATEGORY_DEDUCTIONS,
                               DIFFICULTY_EASY, 0) >>

analyzeAMTOptimizations(form, tax, today) ==
    LET filingStatus == StrOr(form, "filingStatus", "single")
        amtResult    == calculateAMT(form, tax, filingStatus)
        triggerOpts  == analyzeAMTTriggers(amtResult)
        strategyOpts == analyzeAMTStrategies(form, amtResult, tax)
    IN  Pushed(<< IF Above(amtResult.amtExposure, 0)
                  THEN Recommendation("amt-exposure", CATEGORY_INCOME_TIMING,
                                      DIFFICULTY_HARD, 0)
                  ELSE IF Below(amtResult.amtMargin, 400 * 20000)
                  THEN Recommendation("amt-marginal-warning", CATEGORY_INCOME_TIMING,
                                      DIFFICULTY_MEDIUM, 0)
                  ELSE Null,
                  triggerOpts[1], triggerOpts[2],
                  strategyOpts[1], strategyOpts[2], strategyOpts[3] >>)

\* the filing-status analyzer (filingStatusOptimizer.js): its recommendations
\* are changes of status that lower the tax, and no status lowers a tax of
\* zero
analyzeFilingStatusOptimizations(form, tax, today) ==
    IF tax.finalTax <= 0 THEN << >>
    ELSE << Unmodelled("filing-status") >>

\* needs K-1 income
analyzeK1Optimizations(form) ==
    LET hasK1 == \/ Truthy(form, "hasScheduleK1") \/ Truthy(form, "hasK1Income")
                 \/ Truthy(form, "partnershipIncome") \/ Truthy(form, "sCorpIncome")
    IN  IF ~hasK1 THEN << >> ELSE << Unmodelled("k1-qbi-deduction") >>

\* what try block i pushes when its analyzer returns
AnalyzerResult(i, form, tax, today) ==
    CASE Analyzers[i] = "analyzeFilingStatusOptimizations" ->
            analyzeFilingStatusOptimizations(form, tax, today)
      [] Analyzers[i] = "analyzeDeductionOptimizations" ->
            analyzeDeductionOptimizations(form, tax, today)
      [] Analyzers[i] = "analyzeRetirementOptimizations" ->
            analyzeRetirementOptimizations(form, tax, today)
      [] Analyzers[i] = "analyzeCreditsOptimizations" ->
            analyzeCreditsOptimizations(form, tax, today)
      [] Analyzers[i] = "analyzeSelfEmploymentOptimizations" ->
            analyzeSelfEmploymentOptimizations(form)
      [] Analyzers[i] = "analyzeCapitalGainsOptimizations" ->
            analyzeCapitalGainsOptimizations(form, tax, today)
      [] Analyzers[i] = "analyzeAugustaRuleOptimization" ->
            analyzeAugustaRuleOptimization(form)
      [] Analyzers[i] = "analyzeK1Optimizations" ->
            analyzeK1Optimizations(form)
      [] Analyzers[i] = "analyzeAMTOptimizations" ->
            analyzeAMTOptimizations(form, tax, today)
      [] OTHER -> << >>

\* the profiles without amounts: any filing status or none, the amounts
\* absent or zero, and any of the flags absent or false
ZeroAmounts ==
    [totalWages |-> Num(0), retirement401k |-> Num(0), hsaDeduction |-> Num(0),
     hsaContributions |-> Num(0), iraDeduction |-> Num(0)]

ZeroProfiles ==
    {Spread(Spread(st, amounts), Spread(has401k, Spread(hdhp, inv))) :
        st \in {EmptyObject} \cup {[filingStatus |-> Str(x)] : x \in FilingStatuses},
        amounts \in {EmptyObject, ZeroAmounts},
        has401k \in {EmptyObject, [has401k |-> Bool(FALSE)]},
        hdhp \in {EmptyObject, [hasHDHP |-> Bool(FALSE)]},
        inv \in {EmptyObject, [hasInvestments |-> Bool(FALSE)]}}

ZeroInit ==
    /\ CalcIdle
    /\ OrchIdle
    /\ profile \in ZeroProfiles
    /\ clock \in Dates

\* try block `block` on the profile: what the analyzer returns is pushed
AnalyzerRuns ==
    /\ pc = "try"
    /\ block \in DOMAIN Analyzers
    /\ Calls(block, profile)
    /\ \E opts \in {AnalyzerResult(block, profile, currentTax, clock)} :
          /\ allOptimizations' = allOptimizations \o opts
          /\ chunks' = IF opts = << >> THEN chunks ELSE Append(chunks, opts)
    /\ invoked' = Append(invoked, Analyzers[block])
    /\ block' = block + 1
    /\ UNCHANGED <<profile, clock, caller, pc, currentTax, warnings, result,
                   selectedIds, modifiedForm, whatIf>>
    /\ UNCHANGED calcVars

ZeroNext ==
    \/ AnalyzeBegin
    \/ AnalyzerRuns
    \/ StateBlockSkipped
    \/ AnalyzeReturn

SpecZero == ZeroInit /\ [][ZeroNext]_vars

---------------------------------------------------------------------------
(* runWhatIfScenario on profiles whose itemized total lies at and around   *)
(* the standard deduction, with the analyzers above.                       *)

\* the income of the profiles: wages, a Schedule C profit (with a QBI
\* deduction), qualified dividends alone, and wages with a long-term gain
SwitchIncomes ==
    {[totalWages |-> Num(60000)],
     [totalWages |-> Num(10000)],
     [hasScheduleC |-> Bool(TRUE), scheduleC |-> Obj([netProfit |-> Num(100000)])],
     [ordinaryDividends |-> Num(100000), qualifiedDividends |-> Num(100000)],
     [totalWages |-> Num(500000), hasScheduleD |-> Bool(TRUE),
      scheduleD |-> Obj([longTermGain |-> Num(100000)])]}

\* itemized totals relative to the standard deduction of the profile
SwitchOffsets == {0 - 5, 0 - 4, 0, 4, 5, 20000}

\* the profile with charitable gifts of the standard deduction plus d
WithCharityAround(form, d) ==
    Spread(form, [charityCash |-> Num(StandardDeductionOf(form) + d)])

SwitchForms ==
    {WithCharityAround(Spread(Spread(st, dt), inc), d) :
        st \in {EmptyObject} \cup
                 {[filingStatus |-> Str(x)] : x \in {"single", "married", "marriedSeparate"}},
        dt \in {EmptyObject} \cup {[deductionType |-> Str(x)] : x \in {"standard", "itemized"}},
        inc \in SwitchIncomes,
        d \in SwitchOffsets}

SwitchInit ==
    /\ CalcIdle
    /\ OrchIdle
    /\ profile \in SwitchForms
    /\ clock \in Dates

SwitchNext ==
    \/ WhatIfBegin
    \/ AnalyzerRuns
    \/ StateBlockSkipped
    \/ AnalyzeReturn
    \/ WhatIfReturn

SpecSwitch == SwitchInit /\ [][SwitchNext]_vars

---------------------------------------------------------------------------
(* A caller that makes any sequence of calls of the four entry points on   *)
(* one profile, with the analyzers above.  JavaScript runs one call at a   *)
(* time.                                                                   *)

\* a self-employed filer who itemizes below the standard deduction (a
\* profile with a nested record), the itemizing wage earner without the
\* state, and the profiles of the pipeline harness
CallerForms ==
    {Spread(ManualScheduleCForm,
            [deductionType |-> Str("itemized"), charityCash |-> Num(500)]),
     Without(ItemizingForm, "state"),
     EmptyObject, WagesForm, ParsedScheduleCForm, InvestorForm, FamilyForm,
     SeniorForm, LowIncomeFamilyForm, DividendForm}

\* the overrides a caller passes to calculateTaxWithOverrides
OverrideSets ==
    {EmptyObject, [filingStatus |-> Str("marriedSeparate")],
     [deductionType |-> Str("standard"), totalWages |-> Num(0)],
     [scheduleC |-> Obj([netProfit |-> Num(0)])]}

CallerInit ==
    /\ CalcIdle
    /\ OrchIdle
    /\ profile \in CallerForms
    /\ clock \in Dates

NoCallRunning == cOp = "idle" /\ pc = "idle"

CallsCalculateTotalTax == NoCallRunning /\ TotalTaxCall

\* calculateTaxWithOverrides(profile, overrides)
CallsCalculateTaxWithOverrides ==
    /\ NoCallRunning
    /\ cOp' = "withOverrides"
    /\ \E overrides \in OverrideSets :
          cRes' = calculateTaxWithOverridesAt(profile, overrides, clock)
    /\ UNCHANGED <<cBrackets, cStatus, cX, cY, cRes2>>
    /\ UNCHANGED orchVars

CallsAnalyzeTaxOptimizations == NoCallRunning /\ AnalyzeBegin

CallsRunWhatIfScenario == NoCallRunning /\ WhatIfBegin

\* the call has returned and the caller is free to make the next one
CallerResumes ==
    /\ cOp # "idle" \/ pc = "done"
    /\ cOp' = "idle"
    /\ cBrackets' = << >>
    /\ cStatus' = "single"
    /\ cX' = 0
    /\ cY' = 0
    /\ cRes' = 0
    /\ cRes2' = 0
    /\ caller' = "none"
    /\ pc' = "idle"
    /\ block' = 0
    /\ currentTax' = NoResult
    /\ allOptimizations' = << >>
    /\ warnings' = 0
    /\ invoked' = << >>
    /\ chunks' = << >>
    /\ result' = NoResult
    /\ selectedIds' = << >>
    /\ modifiedForm' = EmptyObject
    /\ whatIf' = NoResult
    /\ UNCHANGED <<profile, clock>>

CallerNext ==
    \/ CallsCalculateTotalTax
    \/ CallsCalculateTaxWithOverrides
    \/ CallsAnalyzeTaxOptimizations
    \/ CallsRunWhatIfScenario
    \/ AnalyzerRuns
    \/ StateBlockSkipped
    \/ AnalyzeReturn
    \/ WhatIfReturn
    \/ CallerResumes

SpecCaller == CallerInit /\ [][CallerNext]_vars

---------------------------------------------------------------------------
(* Harness of the surtax calculators and of the phase-out fraction: the    *)
(* arguments are drawn in the initial state, one action applies each.      *)

\* amounts at and around the NIIT thresholds and the phase-out thresholds,
\* the midpoints of the phase-out ranges and the documented examples
SurtaxThresholds ==
    {125000, 200000, 250000, 150000, 275000, 400000, 300000, 425000, 550000}

\* net self-employment profits: multiples of 4000 dollars, for which the
\* tax and its half are whole mills
Profits == {0 - 4000, 4000, 100000, 192000, 220000}

SurtaxAmounts ==
    {t + d : t \in SurtaxThresholds, d \in (0 - Delta)..Delta}
      \cup Profits \cup {0, 0 - 10000, 0 - 1, 1, 30000}

SurtaxInit ==
    /\ OrchIdle
    /\ profile = EmptyObject
    /\ clock = <<2026, 1, 15>>
    /\ cOp = "idle"
    /\ cBrackets = << >>
    /\ cRes = 0
    /\ cRes2 = 0
    /\ cStatus \in StatusInputs
    /\ cX \in SurtaxAmounts
    /\ cY \in SurtaxAmounts

\* calculateNIIT(cX, cY, cStatus)
NIITCall ==
    /\ cOp = "idle"
    /\ cOp' = "niit"
    /\ cRes' = calculateNIIT(cX, cY, cStatus)
    /\ cRes2' = 0
    /\ UNCHANGED <<cBrackets, cStatus, cX, cY>>
    /\ UNCHANGED orchVars

\* calculateSelfEmploymentTax(cX)
SelfEmploymentTaxCall ==
    /\ cOp = "idle"
    /\ cX \in Profits \cup {0}
    /\ cOp' = "seTax"
    /\ cRes' = calculateSelfEmploymentTax(cX)
    /\ cRes2' = 0
    /\ UNCHANGED <<cBrackets, cStatus, cX, cY>>
    /\ UNCHANGED orchVars

\* getPhaseOutPct applied to each of the two amounts
PhaseOutCall ==
    /\ cOp = "idle"
    /\ cOp' = "phaseOut"
    /\ cRes' = getPhaseOutPct(cStatus, cX)
    /\ cRes2' = getPhaseOutPct(cStatus, cY)
    /\ UNCHANGED <<cBrackets, cStatus, cX, cY>>
    /\ UNCHANGED orchVars

SurtaxNext == NIITCall \/ SelfEmploymentTaxCall \/ PhaseOutCall

SpecSurtax == SurtaxInit /\ [][SurtaxNext]_vars

---------------------------------------------------------------------------
(* Claims about the calculators (checked under SpecCalc) *)

\* the highest marginal rate of a table
RECURSIVE MaxRate(_)
MaxRate(brackets) ==
    IF brackets = << >> THEN 0
    ELSE Max(Head(brackets)[2], MaxRate(Tail(brackets)))

\* the band formula: the sum over brackets i..Len of
\* rate * min(income remaining above the floor, band width)
RECURSIVE BandSum(_, _, _)
BandSum(income, brackets, i) ==
    IF i > Len(brackets) THEN 0
    ELSE LET floor     == brackets[i][1]
             rate      == brackets[i][2]
             remaining == Max(0, income - floor)
             band      == IF i = Len(brackets) THEN remaining
                          ELSE Min(remaining, brackets[i + 1][1] - floor)
         IN  rate * band + BandSum(income, brackets, i + 1)

BandTax(income, brackets) == IF income <= 0 THEN 0 ELSE BandSum(income, brackets, 1)

\* C2: calculateCapitalGainsTax taxes each preferential dollar once, at the
\* rate of the capital-gains bracket it falls in when stacked on the ordinary
\* income: for ordinary >= 0 and preferential > 0 the result is
\* BandTax(ordinary + preferential) - BandTax(ordinary) on the capital-gains
\* table, and a non-positive preferential amount gives 0.
C2_StackingEqualsBandDifference ==
    cOp = "capitalGainsTax" =>
        /\ cY <= 0 => cRes = 0
        /\ (cX >= 0 /\ cY > 0) =>
              cRes = BandTax(cX + cY, CapitalGainsBracketsFor(cStatus))
                       - BandTax(cX, CapitalGainsBracketsFor(cStatus))

\* C3: calculateBracketTax returns 0 for income <= 0 and otherwise the band
\* formula; single 40000 -> 4561.50, single 60000 -> 8114, married 80000 -> 9123.
C3_BracketTaxIsBandSum ==
    cOp = "bracketTax" =>
        /\ cRes = BandTax(cX, cBrackets)
        /\ cRes2 = BandTax(cY, cBrackets)
        /\ cX <= 0 => cRes = 0
        /\ (cBrackets = TAX_BRACKETS_2025["single"] /\ cX = 40000) => cRes = 456150
        /\ (cBrackets = TAX_BRACKETS_2025["single"] /\ cX = 60000) => cRes = 811400
        /\ (cBrackets = TAX_BRACKETS_2025["married"] /\ cX = 80000) => cRes = 912300

C3_Witness ==
    /\ cOp = "bracketTax"
    /\ cBrackets = TAX_BRACKETS_2025["married"]
    /\ cX = 80000
    /\ cRes = 912300
    /\ cY = 23850

\* C4: calculateBracketTax is monotonic and has no cliff: for x <= y,
\* 0 <= tax(y) - tax(x) <= (highest marginal rate) * (y - x).
C4_MonotonicNoCliff ==
    (cOp = "bracketTax" /\ cX <= cY) =>
        /\ 0 <= cRes2 - cRes
        /\ cRes2 - cRes <= MaxRate(cBrackets) * (cY - cX)

\* x just below a bracket floor of the single table and y exactly on it
C4_Witness ==
    /\ cOp = "bracketTax"
    /\ cBrackets = TAX_BRACKETS_2025["single"]
    /\ cX = 48474
    /\ cY = 48475
    /\ cRes2 - cRes = 12

---------------------------------------------------------------------------
(* Properties of analyzeTaxOptimizations, stated on the state in which the  *)
(* call has returned.  chunks is the history of the arrays the analyzers   *)
(* returned, invoked the history of the analyzers that were called.        *)

RECURSIVE Flatten(_)
Flatten(lists) ==
    IF lists = << >> THEN << >> ELSE Head(lists) \o Flatten(Tail(lists))

Count(seq, r) == Cardinality({i \in DOMAIN seq : seq[i] = r})

PositionIn(seq, r) == CHOOSE i \in DOMAIN seq : seq[i] = r

\* the analyzers a run on form f has to call, in registration order
Called(f) ==
    LET IsCalled(a) == a = "analyzeStateOptimizations" => StateOf(f) # ""
    IN  SelectSeq(Analyzers, IsCalled)

ResultFields ==
    {"currentTax", "optimizations", "totalPotentialSavings", "optimizedTax", "summary"}

AnalysisReturned == pc = "done"

\* C1: whichever analyzers throw, the call returns a result with the five
\* fields; every analyzer the run has to call was called, also after a
\* failure; the recommendations collected are exactly those the analyzers
\* returned, in order, and the positive ones among them are all in the result.
C1_FailOpen ==
    AnalysisReturned =>
        /\ DOMAIN result = ResultFields
        /\ invoked = Called(profile)
        /\ allOptimizations = Flatten(chunks)
        /\ \A c \in DOMAIN chunks : \A i \in DOMAIN chunks[c] :
              (chunks[c][i].potentialSavings.k = "number"
                 /\ chunks[c][i].potentialSavings.v > 0)
              => \E j \in DOMAIN result.optimizations :
                    result.optimizations[j] = chunks[c][i]

\* a run in which an analyzer threw, all ten analyzers were called and a
\* recommendation of another analyzer is in the result
C1_Witness ==
    /\ AnalysisReturned
    /\ warnings > 0
    /\ Len(invoked) = Len(Analyzers)
    /\ result.optimizations # << >>
    /\ result.summary.totalCount = Len(result.optimizations)

\* C5: the optimizations of the result are exactly the returned
\* recommendations with a numeric potentialSavings above zero, each as often
\* as it was returned; none with zero, negative or NaN savings is kept.
C5_ExactlyPositive ==
    AnalysisReturned =>
        /\ \A i \in DOMAIN result.optimizations :
              /\ result.optimizations[i].potentialSavings.k = "number"
              /\ result.optimizations[i].potentialSavings.v > 0
        /\ \A r \in Recs :
              Count(result.optimizations, r) =
                 IF r.potentialSavings.k = "number" /\ r.potentialSavings.v > 0
                 THEN Count(Flatten(chunks), r) ELSE 0

\* a run that returned one recommendation with savings 0 or NaN or below zero
\* and one with positive savings
C5_Witness ==
    /\ AnalysisReturned
    /\ Len(Flatten(chunks)) = 2
    /\ Len(result.optimizations) = 1
    /\ \E i \in DOMAIN allOptimizations :
          allOptimizations[i].potentialSavings \in {NaN, Num(0), Num(0 - 1)}

\* C6: the optimizations are in descending order of potentialSavings, and
\* two with equal savings are in the order in which they were encountered
\* (the order of the analyzers, then the position in the returned array).
C6_DescendingStable ==
    AnalysisReturned =>
        \A i, j \in DOMAIN result.optimizations :
            i < j =>
              /\ result.optimizations[i].potentialSavings.v
                   >= result.optimizations[j].potentialSavings.v
              /\ result.optimizations[i].potentialSavings.v
                   = result.optimizations[j].potentialSavings.v
                 => PositionIn(Flatten(chunks), result.optimizations[i])
                      < PositionIn(Flatten(chunks), result.optimizations[j])

\* a result whose first two optimizations tie
C6_Witness ==
    /\ AnalysisReturned
    /\ Len(result.optimizations) >= 2
    /\ result.optimizations[1].potentialSavings = result.optimizations[2].potentialSavings

\* the returned arrays, had the analyzers run in the order p
Reordered(lists, p) == [i \in DOMAIN lists |-> lists[p[i]]]

\* the optimizations the call would return for the returned arrays in order p
RankingOf(lists, p) == BeneficialOptimizations(Flatten(Reordered(lists, p)))

SavingsOf(seq) == [i \in DOMAIN seq |-> seq[i].potentialSavings]

Members(seq) == {seq[i] : i \in DOMAIN seq}

RECURSIVE TotalOf(_)
TotalOf(opts) ==
    IF opts = << >> THEN 0
    ELSE Head(opts).potentialSavings.v + TotalOf(Tail(opts))

\* C8: totalPotentialSavings is the sum of potentialSavings over the
\* optimizations of the result and is not negative; optimizedTax is finalTax
\* less the total (in cents), or 0 when that is negative, so never negative.
C8_TotalsAndFloor ==
    AnalysisReturned =>
        LET projected ==
                result.currentTax.finalTax - 100 * result.totalPotentialSavings
        IN  /\ result.totalPotentialSavings = TotalOf(result.optimizations)
            /\ result.totalPotentialSavings >= 0
            /\ result.optimizedTax = IF projected > 0 THEN projected ELSE 0
            /\ result.optimizedTax >= 0
            /\ result.currentTax = calculateTotalTaxAt(profile, clock)

\* a refund profile (finalTax below zero) with positive total savings
C8_Witness ==
    /\ AnalysisReturned
    /\ result.currentTax.finalTax < 0
    /\ result.totalPotentialSavings > 0
    /\ result.optimizedTax = 0

---------------------------------------------------------------------------
(* Properties of runWhatIfScenario, stated on the state in which the call  *)
(* has returned.                                                           *)

WhatIfReturned == pc = "done" /\ caller = "whatIf"

\* the selected ids that a recommendation of the run has, in selection order
KnownIds(ids, optimizations) ==
    LET IsKnown(id) == id \in IdsOf(optimizations)
    IN  SelectSeq(ids, IsKnown)

\* C9: ids that no recommendation of the run has are ignored: the call
\* returns, its selected optimizations and the patched form it taxes are
\* those of the selection restricted to the known ids, and when no selected
\* id is known the form is not changed, newTax is originalTax and savings 0.
C9_UnknownIdsIgnored ==
    WhatIfReturned =>
        LET known    == KnownIds(selectedIds, result.optimizations)
            applied  == SelectedOpts(result.optimizations, known)
        IN  /\ DOMAIN whatIf = {"originalTax", "newTax", "savings", "selectedOptimizations"}
            /\ whatIf.selectedOptimizations = applied
            /\ modifiedForm = ApplyOverrides(profile, applied)
            /\ whatIf.savings = whatIf.originalTax.finalTax - whatIf.newTax.finalTax
            /\ known = << >> =>
                  /\ modifiedForm = profile
                  /\ whatIf.newTax = whatIf.originalTax
                  /\ whatIf.savings = 0

\* a selection of an unknown id and of a known id whose patch changes the tax
C9_Witness ==
    /\ WhatIfReturned
    /\ Len(selectedIds) = 2
    /\ selectedIds[1] = "no-such-id"
    /\ Len(whatIf.selectedOptimizations) = 1
    /\ whatIf.savings # 0

\* the patches of the selected recommendations merged in the order of ids
RECURSIVE MergeInSelectionOrder(_, _, _)
MergeInSelectionOrder(f, optimizations, ids) ==
    IF ids = << >> THEN f
    ELSE LET hits == {i \in DOMAIN optimizations : optimizations[i].id = Head(ids)}
         IN  IF hits = {} THEN MergeInSelectionOrder(f, optimizations, Tail(ids))
             ELSE MergeInSelectionOrder(
                      Spread(f, optimizations[CHOOSE i \in hits : TRUE].formOverrides),
                      optimizations, Tail(ids))

---------------------------------------------------------------------------
(* Properties of the surtax calculators and of the phase-out fraction.     *)

\* C13: calculateNIIT returns 3.8% (38 mills per dollar) of the smaller of
\* the AGI above the threshold and the net investment income, both floored
\* at zero, so it is never negative.
C13_NIITFloored ==
    cOp = "niit" =>
        /\ cRes = 38 * Min(Max(0, cX - NIITThreshold(cStatus)), Max(0, cY))
        /\ cRes >= 0

\* C14: calculateSelfEmploymentTax returns tax 0 and deduction 0 for a profit
\* of at most 0, and otherwise 12.4% of the base up to 176100 plus 2.9% of
\* the base plus 0.9% of the base above 200000, the base being 92.35% of the
\* profit, with half of the tax as the deduction (amounts in mills).
C14_SelfEmploymentTax ==
    cOp = "seTax" =>
        LET base   == (cX * 9235) \div 10000
            capped == IF base < 176100 THEN base ELSE 176100
            above  == IF base > 200000 THEN base - 200000 ELSE 0
        IN  /\ (cX * 9235) % 10000 = 0
            /\ IF cX <= 0
               THEN cRes = [tax |-> 0, deduction |-> 0]
               ELSE /\ cRes.tax = capped * 124 + base * 29 + above * 9
                    /\ 2 * cRes.deduction = cRes.tax
            /\ cX = 100000 => cRes.tax = 14129550 /\ cRes.deduction = 7064775

\* a profit whose base is above both the wage base and the additional
\* Medicare threshold
C14_Witness ==
    /\ cOp = "seTax"
    /\ cX = 220000
    /\ cRes.tax = 176100 * 124 + 203170 * 29 + 3170 * 9

\* the fraction p = <<numerator, denominator>> in 250000ths
In250000ths(p) == p[1] * (250000 \div p[2])

\* C15: the phase-out fraction is 1 at or below the start threshold, 0 at or
\* above the end threshold and (end - income) / (end - start) in between
\* (150000 and 400000, for a married filer 300000 and 550000); it lies in
\* [0, 1] and does not increase with the income.
C15_PhaseOutFraction ==
    cOp = "phaseOut" =>
        LET start == IF cStatus = "married" THEN 300000 ELSE 150000
            end   == start + 250000
            pct   == In250000ths(cRes)
        IN  /\ cX <= start => pct = 250000
            /\ cX >= end => pct = 0
            /\ (start < cX /\ cX < end) => pct = end - cX
            /\ 0 <= pct /\ pct <= 250000
            /\ cX <= cY => pct >= In250000ths(cRes2)
            /\ (cStatus = "single" /\ cX = 275000) => 2 * pct = 250000

\* a single filer half way through the range and one past its end
C15_Witness ==
    /\ cOp = "phaseOut"
    /\ cStatus = "single"
    /\ cX = 275000
    /\ cY = 400001
    /\ cRes = <<125000, 250000>>
    /\ cRes2 = <<0, 1>>

---------------------------------------------------------------------------
(* Properties of calculateAMT.                                             *)

\* C12: calculateAMT returns an exemption of at least 0 and an amtOwed of at
\* least 0, amtOwed being tentativeMinimumTax less the regular tax of the
\* baseline result, or 0 when that is negative, and amtMargin the regular
\* tax less tentativeMinimumTax; also for a baseline whose regular tax is 0.
C12_AMTNeverNegative ==
    cOp = "amt" =>
        LET regularTax == 4 * currentTax.regularTax
            excess     == cRes.tentativeMinimumTax - regularTax
        IN  /\ cRes.exemption >= 0
            /\ cRes.amtOwed = Num(IF excess > 0 THEN excess ELSE 0)
            /\ cRes.amtMargin = Num(regularTax - cRes.tentativeMinimumTax)

\* the SALT deduction the baseline result claimed: the capped amount when
\* the pipeline took the itemized total, nothing when it took the standard
\* deduction
ClaimedSalt(form) ==
    IF StrOr(form, "deductionType", "") = "itemized" THEN ActualSalt(form) ELSE 0

\* C21: the AMTI that calculateAMT returns is the taxable income of the
\* baseline result plus the SALT deduction that baseline claimed (capped as
\* the pipeline caps it, nothing under the standard deduction) plus the ISO
\* exercise spread, the private-activity-bond interest and the depreciation
\* adjustment, each 0 when missing.
C21_AMTIAddsBackClaimedSalt ==
    cOp = "amt" =>
        cRes.amti = currentTax.taxableIncome + ClaimedSalt(profile)
                      + Amt(profile, "isoExerciseSpread")
                      + Amt(profile, "privateActivityBondInterest")
                      + Amt(profile, "amtDepreciationAdjustment")

\* C22: the AMT exemption is the base exemption of the filing status for
\* an AMTI up to the phase-out start and the base less a quarter of the
\* excess, or 0 when that is negative, above it; it never rises with the
\* AMTI, never drops by more than a quarter of the rise of the AMTI (so it
\* has no jump at the phase-out start), and is 0 from the start plus four
\* times the base onward.
C22_ExemptionPhaseOut ==
    cOp = "exemption" =>
        LET base  == AMTBaseExemption(cStatus)
            start == AMTPhaseOutStart(cStatus)
        IN  /\ cX <= start => cRes = 4 * base
            /\ cX > start =>
                  cRes = (IF 4 * base - (cX - start) > 0
                          THEN 4 * base - (cX - start) ELSE 0)
            /\ cX <= cY => (cRes >= cRes2 /\ cRes - cRes2 <= cY - cX)
            /\ cX >= start + 4 * base => cRes = 0

\* a single filer at the phase-out start and one dollar past the end of
\* the phase-out
C22_Witness ==
    /\ cOp = "exemption"
    /\ cStatus = "single"
    /\ cX = 609350
    /\ cY = 961751
    /\ cRes = 4 * 88100
    /\ cRes2 = 0

---------------------------------------------------------------------------
(* Properties of calculateTotalTax.                                        *)

IsWageOnly(form) == \E W \in Wages : form = WageOnlyForm(W)

C17_AbsentIsZero ==
    cOp = "coerce" => cRes2 = cRes /\ cY = cRes

NetFields == {<<"scheduleC", "netProfit">>, <<"scheduleE", "netIncome">>}

\* the net amount the pipeline derives when the net field is absent
DerivedNet(form, path) ==
    LET o == form[path[1]].v
    IN  IF path[1] = "scheduleC" THEN Amt(o, "grossReceipts") - Amt(o, "expenses")
        ELSE Amt(o, "rentalIncome") - Amt(o, "rentalExpenses")

\* C17 as amended: the result is the same with the field set to a non-numeric
\* value as with the field set to 0, and the same with the field absent,
\* except for scheduleC.netProfit and scheduleE.netIncome: with one of these
\* absent the result is that of the net amount set to gross receipts less
\* expenses (rental income less rental expenses), each of them zero-defaulted.
C17_AbsentIsZeroOrDerived ==
    cOp = "coerce" =>
        /\ cY = cRes
        /\ cX \notin NetFields => cRes2 = cRes
        /\ cX \in NetFields =>
              cRes2 = calculateTotalTaxAt(
                          SetAt(profile, cX, Num(DerivedNet(profile, cX))), clock)

\* a child tax credit field of 0 or absent, for a couple with a qualifying
\* child whose estimated credit lowers the tax
C17_Witness ==
    /\ cOp = "coerce"
    /\ cX = <<"childTaxCredit">>
    /\ profile = FamilyForm
    /\ cRes.totalCredits = 250000
    /\ cRes2 = cRes

\* C18: two calls of calculateTotalTax with the same profile return the same
\* result, whatever the date of each call.
C18_SameResultAtAnyDate ==
    cOp = "again" => cRes2 = cRes

---------------------------------------------------------------------------
(* Properties of the entry points together.                                *)

\* C11: no step of calculateTotalTax, calculateTaxWithOverrides,
\* analyzeTaxOptimizations or runWhatIfScenario, in any sequence of calls,
\* changes a field of the caller's profile, nested records included.
C11_ProfileNeverMutated == [][profile' = profile]_vars

\* a what-if call has merged a patch into its copy of a profile
C11_Witness ==
    /\ WhatIfReturned
    /\ profile \in CallerForms
    /\ Has(profile, "scheduleC")
    /\ StrOr(profile, "deductionType", "") = "itemized"
    /\ modifiedForm["scheduleC"] = profile["scheduleC"]
    /\ modifiedForm # profile
    /\ modifiedForm["deductionType"] = Str("standard")

---------------------------------------------------------------------------
(* Properties of the summary.                                              *)

\* the indices of the recommendations of category c, of difficulty d
OfCategory(opts, c) == {i \in DOMAIN opts : opts[i].category = c}

OfDifficulty(opts, d) == {i \in DOMAIN opts : opts[i].difficulty = d}

\* the sum of field f over the entries of byCategory
RECURSIVE SumOverCategories(_, _, _)
SumOverCategories(byCategory, cats, f) ==
    IF cats = {} THEN 0
    ELSE LET c == CHOOSE x \in cats : TRUE
         IN  byCategory[c][f] + SumOverCategories(byCategory, cats \ {c}, f)

\* C19: the summary agrees with the returned optimizations: totalCount is
\* the length of the list; byCategory has an entry for exactly the
\* categories listed, each count is the number of listed recommendations of
\* the category and the counts sum to totalCount; the totalSavings of the
\* categories sum to totalPotentialSavings; easyWins is the number of listed
\* recommendations of difficulty easy; topRecommendation is the first entry,
\* which has the highest savings, or null when the list is empty.
C19_SummaryConsistent ==
    AnalysisReturned =>
      LET opts       == result.optimizations
          summary    == result.summary
          byCategory == summary.byCategory
          cats       == DOMAIN byCategory
      IN  /\ summary.totalCount = Len(opts)
          /\ cats = {opts[i].category : i \in DOMAIN opts}
          /\ \A c \in cats : byCategory[c].count = Cardinality(OfCategory(opts, c))
          /\ SumOverCategories(byCategory, cats, "count") = summary.totalCount
          /\ SumOverCategories(byCategory, cats, "totalSavings")
               = result.totalPotentialSavings
          /\ summary.easyWins = Cardinality(OfDifficulty(opts, DIFFICULTY_EASY))
          /\ IF opts = << >>
             THEN summary.topRecommendation = Null
             ELSE /\ summary.topRecommendation = opts[1]
                  /\ \A i \in DOMAIN opts :
                        opts[1].potentialSavings.v >= opts[i].potentialSavings.v

\* an analysis returned recommendations of two categories, one of them easy
C19_Witness ==
    /\ AnalysisReturned
    /\ Len(result.optimizations) >= 2
    /\ Cardinality(DOMAIN result.summary.byCategory) = 2
    /\ result.summary.easyWins = 1
    /\ result.summary.byCategory[CATEGORY_DEDUCTIONS].totalSavings = 2
    /\ result.summary.topRecommendation.category = CATEGORY_DEDUCTIONS

---------------------------------------------------------------------------
(* Properties of the analysis of a profile without amounts.                *)

---------------------------------------------------------------------------
(* Further properties of calculateTotalTax.                                *)

\* C24: for a profile with a self-employment profit above zero, the AGI is
\* the total income less the adjustments of the result and less the
\* deduction of the self-employment calculator, half of the reported seTax
\* (to the dollar).
C24_SEDeductionLowersAGI ==
    (cOp = "totalTax" /\ cRes.seTax > 0) =>
        LET halfSeTax == 200 * (cRes.totalIncome - cRes.totalAdjustments - cRes.agi)
        IN  /\ halfSeTax - cRes.seTax <= 200
            /\ cRes.seTax - halfSeTax <= 200

\* the non-refundable and the refundable credits of a profile, in cents
NonRefundableCreditsOf(form) ==
    LET children == CountDeps(Dependents(form), TRUE)
        others   == CountDeps(Dependents(form), FALSE)
        child    == IF Amt(form, "childTaxCredit") # 0
                    THEN Amt(form, "childTaxCredit") ELSE 2000 * children
        other    == IF Amt(form, "creditOtherDependents") # 0
                    THEN Amt(form, "creditOtherDependents") ELSE 500 * others
    IN  100 * (child + other + Amt(form, "educationCredits")
                 + Amt(form, "retirementSaversCredit") + Amt(form, "childCareCredit"))

RefundableCreditsOf(form) ==
    100 * (Amt(form, "earnedIncomeCredit") + Amt(form, "otherCredits"))

\* C26: in every result finalTax is totalTaxBeforeCredits less the
\* non-refundable credits, but not below 0, less the refundable credits;
\* so finalTax is at least minus the refundable credits, and refundOrOwed
\* is totalPayments less finalTax.
C26_CreditsFloorAtZero ==
    cOp = "totalTax" =>
        LET afterNonRefundable ==
                cRes.totalTaxBeforeCredits - NonRefundableCreditsOf(profile)
        IN  /\ cRes.finalTax = (IF afterNonRefundable > 0 THEN afterNonRefundable ELSE 0)
                                 - RefundableCreditsOf(profile)
            /\ cRes.finalTax >= 0 - RefundableCreditsOf(profile)
            /\ cRes.totalCredits
                 = NonRefundableCreditsOf(profile) + RefundableCreditsOf(profile)
            /\ cRes.refundOrOwed = cRes.totalPayments - cRes.finalTax

\* the child credits of 4000 exceed the tax, the earned income credit of
\* 3000 makes the final tax negative
C26_Witness ==
    /\ cOp = "totalTax"
    /\ profile = LowIncomeFamilyForm
    /\ cRes.totalTaxBeforeCredits > 0
    /\ cRes.totalTaxBeforeCredits < 400000
    /\ cRes.finalTax = 0 - 300000
    /\ cRes.refundOrOwed = 420000

\* C27: every result reports niit beside regularTax, capitalGainsTax and
\* seTax, and totalTaxBeforeCredits is the sum of the four.
C27_ReportsNIIT ==
    cOp = "totalTax" =>
        /\ "niit" \in DOMAIN cRes
        /\ cRes.totalTaxBeforeCredits
             = cRes.regularTax + cRes.capitalGainsTax + cRes.seTax + cRes.niit

\* qualified dividends plus long-term gains above zero, as the pipeline
\* passes them to the capital gains calculator
QualifiedIncomeOf(form) ==
    Amt(form, "qualifiedDividends") + Max(0, LongTermGain(form))

\* C28: the income taxed at bracket rates plus the qualified income taxed
\* at capital gains rates is at most taxableIncome: regularTax and
\* capitalGainsTax are the taxes of the taxable income split into the
\* qualified income that fits into it and the ordinary rest.
C28_QualifiedWithinTaxable ==
    cOp = "totalTax" =>
        LET filingStatus == StrOr(profile, "filingStatus", "single")
            qualified == Min(QualifiedIncomeOf(profile), cRes.taxableIncome)
            ordinary  == cRes.taxableIncome - qualified
        IN  /\ cRes.regularTax
                 = calculateBracketTax(ordinary,
                        IF filingStatus \in FilingStatuses
                        THEN TAX_BRACKETS_2025[filingStatus]
                        ELSE TAX_BRACKETS_2025["single"])
            /\ cRes.capitalGainsTax
                 = calculateCapitalGainsTax(ordinary, qualified, filingStatus)

---------------------------------------------------------------------------
(* Further properties of analyzeTaxOptimizations and runWhatIfScenario.    *)

\* how often a returned run has invoked analyzer a
TimesInvoked(a) == Cardinality({i \in DOMAIN invoked : invoked[i] = a})

\* C25 as stated: every returned run has invoked every registered analyzer
\* exactly once, whatever the profile holds and whichever analyzers failed.
C25_EveryAnalyzerOnce ==
    AnalysisReturned =>
        \A i \in DOMAIN Analyzers : TimesInvoked(Analyzers[i]) = 1

\* C25: every returned run has invoked every registered analyzer exactly
\* once, whichever analyzers failed, except that the state analyzer is
\* invoked only for a profile with a state (state or stateOfResidence) and
\* not at all for a profile without one.
C25_EveryAnalyzerOnceStateOnlyWithState ==
    AnalysisReturned =>
        \A i \in DOMAIN Analyzers :
            TimesInvoked(Analyzers[i]) =
               (IF Analyzers[i] = "analyzeStateOptimizations" /\ StateOf(profile) = ""
                THEN 0 ELSE 1)

\* a run on a profile without a state in which an analyzer threw: the nine
\* other analyzers were invoked, the state analyzer was not
C25_Witness ==
    /\ AnalysisReturned
    /\ StateOf(profile) = ""
    /\ warnings > 0
    /\ TimesInvoked("analyzeStateOptimizations") = 0
    /\ TimesInvoked("analyzeAMTOptimizations") = 1
    /\ Len(invoked) = Len(Analyzers) - 1

\* the positions of the recommendations of the result whose id is selected
SelectedPositions ==
    {i \in DOMAIN result.optimizations :
        \E k \in DOMAIN selectedIds : selectedIds[k] = result.optimizations[i].id}

\* the k-th smallest of a set of positions
NthOf(positions, k) ==
    CHOOSE i \in positions : Cardinality({j \in positions : j <= i}) = k

\* { ...o1, ...o2, ... } of the formOverrides of the recommendations
RECURSIVE MergedOverrides(_)
MergedOverrides(opts) ==
    IF opts = << >> THEN EmptyObject
    ELSE Spread(MergedOverrides(SubSeq(opts, 1, Len(opts) - 1)),
                opts[Len(opts)].formOverrides)

\* a returned recommendation that the analysis filtered out although it
\* has a patch, and whose id is selected
FilteredOutSelected(opt) ==
    /\ ~(opt.potentialSavings.k = "number" /\ opt.potentialSavings.v > 0)
    /\ opt.formOverrides # EmptyObject
    /\ \E k \in DOMAIN selectedIds : selectedIds[k] = opt.id

\* C29: the selectedOptimizations of a what-if run are the recommendations
\* of the analysis result whose id is selected, in the order of the result;
\* none of them has savings that are not above zero, so a recommendation
\* the analysis filtered out is not applied even when its id is selected;
\* and newTax is calculateTaxWithOverrides(form, the merged formOverrides
\* of the applied recommendations).
C29_OnlyRetainedApplied ==
    WhatIfReturned =>
        LET applied == whatIf.selectedOptimizations
        IN  /\ Len(applied) = Cardinality(SelectedPositions)
            /\ \A k \in DOMAIN applied :
                  /\ applied[k] = result.optimizations[NthOf(SelectedPositions, k)]
                  /\ applied[k].potentialSavings.k = "number"
                  /\ applied[k].potentialSavings.v > 0
            /\ whatIf.newTax
                 = calculateTaxWithOverridesAt(profile, MergedOverrides(applied), clock)

\* the itemizing profile, for which a switch to the standard deduction was
\* returned with savings that are not above zero: its id is selected, it is
\* not applied, and the tax does not change
C29_Witness ==
    /\ WhatIfReturned
    /\ profile = ItemizingForm
    /\ \E i \in DOMAIN allOptimizations :
          /\ FilteredOutSelected(allOptimizations[i])
          /\ allOptimizations[i].id = "deduction-switch-to-standard"
    /\ whatIf.selectedOptimizations = << >>
    /\ whatIf.newTax = whatIf.originalTax
    /\ whatIf.newTax.deduction < 15700

---------------------------------------------------------------------------
(* Properties of the switch of the deduction type.                         *)

DeductionSwitchIds == {"deduction-switch-to-standard", "deduction-switch-to-itemized"}

\* the what-if run has returned, just one id was selected, it is a switch of
\* the deduction type and the analysis has retained that recommendation
SwitchApplied ==
    /\ WhatIfReturned
    /\ Len(selectedIds) = 1
    /\ selectedIds[1] \in DeductionSwitchIds
    /\ \E i \in DOMAIN result.optimizations : result.optimizations[i].id = selectedIds[1]

\* C30: when the analysis retains a switch of the deduction type for a
\* profile, the what-if run of that profile with just that id has a newTax
\* with a larger deduction and a taxable income no larger than those of
\* originalTax, and savings, originalTax.finalTax less newTax.finalTax, of
\* at least 0.
C30_SwitchNeverRaisesTax ==
    SwitchApplied =>
        /\ whatIf.newTax.deduction > whatIf.originalTax.deduction
        /\ whatIf.newTax.taxableIncome <= whatIf.originalTax.taxableIncome
        /\ whatIf.savings = whatIf.originalTax.finalTax - whatIf.newTax.finalTax
        /\ whatIf.savings >= 0

\* a single filer with wages of 60000 who itemizes 5 dollars less than the
\* standard deduction: the switch adds 5 dollars of deduction and saves the
\* 12% tax on them
C30_Witness ==
    /\ SwitchApplied
    /\ selectedIds = <<"deduction-switch-to-standard">>
    /\ whatIf.originalTax.deduction = 15695
    /\ whatIf.newTax.deduction = 15700
    /\ whatIf.originalTax.taxableIncome = 44305
    /\ whatIf.savings = 60

====
